---- MODULE Spec2Model ----
(***************************************************************************)
(* The in-memory face index (FaceIndex, services/face-index.js), the       *)
(* matching routine it delegates to (FaceUtils.findBestMatch and           *)
(* FaceUtils.cosineDistance, utils/face-utils.js) and the users table the  *)
(* index is rebuilt from; the user service that keeps the index in step    *)
(* with the table (services/user.service.js); the detection service and    *)
(* its choice of strategy (services/face-detection.js); the window scan    *)
(* and the grouping of the Haar cascade detector (services/haar-cascade.js)*)
(* and the rate limiter (middleware/rateLimit.middleware.js).              *)
(*                                                                         *)
(* Each part has its own variables and its own specification; the          *)
(* operations of one part leave the variables of the others unchanged.     *)
(*                                                                         *)
(* The server runs on one event loop: a synchronous method runs to         *)
(* completion, an async method can be interleaved with other handlers at   *)
(* each await.  FaceIndex.rebuild has one await (repo.find()), so it is    *)
(* modelled as two steps; every other index method is one step.  One       *)
(* rebuild() call is followed at a time; addUser, removeUser, clear and    *)
(* search may run during its await.  The users table belongs to the        *)
(* persistence layer: the rows repo.find() returns are an input.           *)
(*                                                                         *)
(* Distances are kept as integers in units of 1/Scale.  The vectors used   *)
(* have integer norms, so sqrt and the division are exact.                 *)
(***************************************************************************)
EXTENDS Integers, Sequences, FiniteSets, TLC

VARIABLES
    entries,    \* this.entries : sequence of [id, embeddings]
    version,    \* this.version
    loaded,     \* this.loaded
    reb,        \* the rebuild() call in flight, if any
    last,       \* outcome of the most recent addUser/removeUser/rebuild/clear
    committed,  \* the entry set produced by the most recent completed mutation
    res,        \* outcome of the most recent search since the last mutation
    useHaarCascade, \* FaceDetectionService.useHaarCascade
    cascadeLoaded,  \* HaarCascadeDetector.cascadeLoaded
    detected,       \* the detectFaces calls made so far: image and method used
    users,      \* the users table: one row per id
    svc,        \* the UserService call in flight, or the last one made
    deleted,    \* ids deleteUserById returned true for and not added since
    buckets,    \* rateLimit: key -> {count, start}
    now,        \* Date.now(), in ticks
    admitted,   \* per key, the times of the requests passed on to next()
    grouping,   \* a groupDetections call: its arguments and its result
    scanning,   \* a window scan: its arguments and the raw detections
    summing,    \* a getRectangleSum call on the integral of an image
    aggregating,\* an aggregateEmbeddings call: its argument and its result
    validating, \* a validateEmbeddingQuality call: its arguments and its result
    evaluating, \* an evaluateWindow call: the cascade, the stages visited
    loop,       \* the while loop of detectAtMultipleScales, one iteration a step
    auth        \* a findByEmbedding call: its position, what it read, its result

detector == <<useHaarCascade, cascadeLoaded, detected>>
service == <<users, svc, deleted>>
limiter == <<buckets, now, admitted>>
scanner == <<grouping, scanning>>
calls == <<summing, aggregating, validating, evaluating, loop, auth>>

vars == <<entries, version, loaded, reb, last, committed, res,
          detector, service, limiter, scanner, calls>>

----------------------------------------------------------------------------
(* Bounds *)

MaxUsers == 2       \* number of distinct user ids
MaxVersion == 3     \* mutations of the index in one run

(* Program constants *)

Scale == 100        \* one unit of distance is 1/Scale
Infinity == 1000000 \* stands for the IEEE Infinity the code starts from
MaxSamples == 5     \* samples.slice(0, 5)
MaxRanked == 5      \* allMatches.slice(0, 5) and maxResults = 5
MaxDistance == 2    \* cosineDistance of a zero vector

Ids == 1..MaxUsers

----------------------------------------------------------------------------
(* JavaScript values: an embedding is an array of numbers or is missing *)

Arr(v) == [isArray |-> TRUE, v |-> v]
Null == [isArray |-> FALSE, v |-> <<>>]

VA == <<3, 4>>
VB == <<4, 3>>
VD == <<5>>

FaceOf(m) == [mean |-> m, median |-> m, samples |-> <<m>>]
NoFace == [mean |-> Null, median |-> Null, samples |-> <<>>]
FA == FaceOf(Arr(VA))
FB == FaceOf(Arr(VB))
FD == FaceOf(Arr(VD))
FE == [mean |-> Arr(<<>>), median |-> Null, samples |-> <<>>]
FZ == FaceOf(Arr(<<0, 0>>))

\* the faceEmbeddings values of stored rows, of addUser's argument in the
\* concurrent runs and of addUser's argument in the matching runs
RowFaces == {NoFace, FA}
Faces == {NoFace, FA, FB}
MatchFaces == {NoFace, FA, FB, FD, FE, FZ}

Min2(a, b) == IF a < b THEN a ELSE b

Slice(s, n) == SubSeq(s, 1, Min2(n, Len(s)))

IdsOf(es) == {es[i].id : i \in 1..Len(es)}

RECURSIVE SumFrom(_, _)
SumFrom(ns, i) == IF i > Len(ns) THEN 0 ELSE ns[i] + SumFrom(ns, i + 1)

\* ns.reduce((sum, n) => sum + n, 0)
Sum(ns) == SumFrom(ns, 1)

----------------------------------------------------------------------------
(* FaceUtils.cosineDistance *)

RECURSIVE DotFrom(_, _, _)
DotFrom(a, b, i) ==
    IF i > Len(a) THEN 0 ELSE a[i] * b[i] + DotFrom(a, b, i + 1)

Dot(a, b) == DotFrom(a, b, 1)

Sqrt(n) == CHOOSE r \in 0..n : r * r <= n /\ n < (r + 1) * (r + 1)

\* the three guards that make cosineDistance throw
CosineThrows(a, b) ==
    \/ ~a.isArray \/ ~b.isArray
    \/ Len(a.v) # Len(b.v)
    \/ Len(a.v) = 0

\* the "1 -" left out: the similarity is returned as the distance
CosineDistance_Similarity(a, b) ==
    LET dot == Dot(a.v, b.v)
        magnitude == Sqrt(Dot(a.v, a.v)) * Sqrt(Dot(b.v, b.v))
    IN  IF magnitude = 0 THEN MaxDistance * Scale
        ELSE (dot * Scale) \div magnitude

CosineDistance(a, b) ==
    LET dot == Dot(a.v, b.v)
        magnitude == Sqrt(Dot(a.v, a.v)) * Sqrt(Dot(b.v, b.v))
    IN  IF magnitude = 0 THEN MaxDistance * Scale
        ELSE Scale - (dot * Scale) \div magnitude

----------------------------------------------------------------------------
(* FaceUtils.aggregateEmbeddings and FaceUtils.validateEmbeddingQuality.   *)
(* A quotient the code leaves in a double is kept as the fraction num/den. *)

MaxFrames == 4      \* embeddings handed to one call

RECURSIVE InsertNumber(_, _)
InsertNumber(sorted, v) ==
    IF Len(sorted) = 0 THEN <<v>>
    ELSE IF sorted[Len(sorted)] <= v THEN Append(sorted, v)
    ELSE Append(InsertNumber(SubSeq(sorted, 1, Len(sorted) - 1), v),
                sorted[Len(sorted)])

RECURSIVE SortNumbersFrom(_, _, _)
SortNumbersFrom(ns, i, sorted) ==
    IF i > Len(ns) THEN sorted
    ELSE SortNumbersFrom(ns, i + 1, InsertNumber(sorted, ns[i]))

\* values.sort((a, b) => a - b)
SortNumbers(ns) == SortNumbersFrom(ns, 1, <<>>)

\* the upper of the two middle values is taken when the count is even
MedianOf_UpperMiddle(values) ==
    LET mid == Len(values) \div 2
    IN  [num |-> values[mid + 1], den |-> 1]

\* the median of sorted values; values[mid] of the code is values[mid + 1] here
MedianOf(values) ==
    LET mid == Len(values) \div 2
    IN  IF Len(values) % 2 = 0
        THEN [num |-> values[mid] + values[mid + 1], den |-> 2]
        ELSE [num |-> values[mid + 1], den |-> 1]

\* the i-th coordinate of every embedding
Column(embeddings, i) == [k \in 1..Len(embeddings) |-> embeddings[k].v[i]]

AggregateFailure == [kind |-> "error", mean |-> <<>>, median |-> <<>>]

AggregateEmbeddings(embeddings) ==
    IF Len(embeddings) = 0 THEN AggregateFailure
    ELSE IF ~embeddings[1].isArray THEN AggregateFailure
    ELSE LET dimension == Len(embeddings[1].v)
             n == Len(embeddings)
         IN  IF \E k \in 1..n :
                   ~embeddings[k].isArray \/ Len(embeddings[k].v) # dimension
             THEN AggregateFailure
             ELSE [kind |-> "ok",
                   mean |-> [i \in 1..dimension |->
                               [num |-> Sum(Column(embeddings, i)), den |-> n]],
                   median |-> [i \in 1..dimension |->
                                 MedianOf(SortNumbers(Column(embeddings, i)))]]

\* the sum over the embeddings and the dimensions of (embedding[i] - mean[i])^2,
\* as a fraction: the mean is sum/n, so each difference is (n * x - sum) / n
TotalVariance(embeddings, mean) ==
    LET n == Len(embeddings)
        dimension == Len(mean)
    IN  [num |-> Sum([c \in 1..(n * dimension) |->
                        LET k == ((c - 1) \div dimension) + 1
                            i == ((c - 1) % dimension) + 1
                            diff == n * embeddings[k].v[i] - mean[i].num
                        IN  diff * diff]),
         den |-> n * n]

\* the sum of cosineDistance over the pairs i < j
PairwiseSum(embeddings) ==
    LET n == Len(embeddings)
    IN  Sum([c \in 1..(n * n) |->
               LET i == ((c - 1) \div n) + 1
                   j == ((c - 1) % n) + 1
               IN  IF i < j THEN CosineDistance(embeddings[i], embeddings[j])
                   ELSE 0])

PairCount(embeddings) == (Len(embeddings) * (Len(embeddings) - 1)) \div 2

\* variance >= minVariance && meanDistance < maxMeanDistance
QualityTest(variance, meanDistance, options) ==
    /\ variance.num * options.minVariance.den
         >= options.minVariance.num * variance.den
    /\ meanDistance.num < options.maxMeanDistance * meanDistance.den

ValidateEmbeddingQuality(embeddings, options) ==
    IF Len(embeddings) < options.minSamples
    THEN [kind |-> "ok", isValid |-> FALSE, reason |-> "insufficient_samples"]
    ELSE LET aggregated == AggregateEmbeddings(embeddings) IN
         IF aggregated.kind = "error"
         THEN [kind |-> "error", isValid |-> FALSE, reason |-> "thrown"]
         ELSE LET n == Len(embeddings)
                  dimension == Len(embeddings[1].v)
                  totalVariance == TotalVariance(embeddings, aggregated.mean)
                  variance == [num |-> totalVariance.num,
                               den |-> totalVariance.den * n * dimension]
                  meanDistance ==
                    IF PairCount(embeddings) > 0
                    THEN [num |-> PairwiseSum(embeddings),
                          den |-> PairCount(embeddings)]
                    ELSE [num |-> 0, den |-> 1]
                  isValid == QualityTest(variance, meanDistance, options)
              IN  [kind |-> "ok", isValid |-> isValid,
                   reason |-> IF isValid THEN "valid" ELSE "quality_issues"]

----------------------------------------------------------------------------
(* FaceUtils.findBestMatch *)

NoCandidate == [id |-> 0, embeddings |-> <<>>]
NoMatch == [kind |-> "null", id |-> 0, distance |-> 0, secondDistance |-> 0,
            ranked |-> <<>>]
Failure(k) == [NoMatch EXCEPT !.kind = k]

\* emb => Array.isArray(emb) && emb.length === queryEmbedding.length
Comparable(query, emb) == emb.isArray /\ Len(emb.v) = Len(query.v)

\* the length test left out of the filter: every array variant is compared
ComparableVariants_KeepsArrays(query, candidate) ==
    SelectSeq(candidate.embeddings, LAMBDA emb : emb.isArray)

ComparableVariants(query, candidate) ==
    SelectSeq(candidate.embeddings, LAMBDA emb : Comparable(query, emb))

RECURSIVE MinFrom(_, _, _)
MinFrom(query, embs, i) ==
    LET d == CosineDistance(query, embs[i])
    IN  IF i = Len(embs) THEN d ELSE Min2(d, MinFrom(query, embs, i + 1))

\* Math.min(...distances) over the comparable variants of one candidate
MinDistance(query, candidate) ==
    MinFrom(query, ComparableVariants(query, candidate), 1)

InitScan == [hasBest |-> FALSE, bestMatch |-> NoCandidate,
             bestDistance |-> Infinity, secondBestDistance |-> Infinity,
             allMatches |-> <<>>, threw |-> FALSE]

\* the else-if branch left out: a candidate that is not the best never
\* becomes the second-best
ScanStep_NoRunnerUp(acc, query, candidate) ==
    IF candidate.id = 0 THEN acc
    ELSE LET embs == ComparableVariants(query, candidate) IN
         IF \E i \in 1..Len(embs) : CosineThrows(query, embs[i])
         THEN [acc EXCEPT !.threw = TRUE]
         ELSE IF Len(embs) = 0 THEN acc
         ELSE LET minDistance == MinDistance(query, candidate)
                  pushed == [acc EXCEPT !.allMatches =
                               Append(@, [id |-> candidate.id, distance |-> minDistance])]
              IN  IF minDistance < acc.bestDistance
                  THEN [pushed EXCEPT !.secondBestDistance = acc.bestDistance,
                                      !.bestDistance = minDistance,
                                      !.bestMatch = candidate,
                                      !.hasBest = TRUE]
                  ELSE pushed

\* the old best is not handed down to the second-best when a new best is found
ScanStep_DropsOldBest(acc, query, candidate) ==
    IF candidate.id = 0 THEN acc
    ELSE LET embs == ComparableVariants(query, candidate) IN
         IF \E i \in 1..Len(embs) : CosineThrows(query, embs[i])
         THEN [acc EXCEPT !.threw = TRUE]
         ELSE IF Len(embs) = 0 THEN acc
         ELSE LET minDistance == MinDistance(query, candidate)
                  pushed == [acc EXCEPT !.allMatches =
                               Append(@, [id |-> candidate.id, distance |-> minDistance])]
              IN  IF minDistance < acc.bestDistance
                  THEN [pushed EXCEPT !.bestDistance = minDistance,
                                      !.bestMatch = candidate,
                                      !.hasBest = TRUE]
                  ELSE IF minDistance < acc.secondBestDistance
                  THEN [pushed EXCEPT !.secondBestDistance = minDistance]
                  ELSE pushed

\* one iteration of candidates.forEach
ScanStep(acc, query, candidate) ==
    IF candidate.id = 0 THEN acc
    ELSE LET embs == ComparableVariants(query, candidate) IN
         IF \E i \in 1..Len(embs) : CosineThrows(query, embs[i])
         THEN [acc EXCEPT !.threw = TRUE]
         ELSE IF Len(embs) = 0 THEN acc
         ELSE LET minDistance == MinDistance(query, candidate)
                  pushed == [acc EXCEPT !.allMatches =
                               Append(@, [id |-> candidate.id, distance |-> minDistance])]
              IN  IF minDistance < acc.bestDistance
                  THEN [pushed EXCEPT !.secondBestDistance = acc.bestDistance,
                                      !.bestDistance = minDistance,
                                      !.bestMatch = candidate,
                                      !.hasBest = TRUE]
                  ELSE IF minDistance < acc.secondBestDistance
                  THEN [pushed EXCEPT !.secondBestDistance = minDistance]
                  ELSE pushed

RECURSIVE ScanFrom(_, _, _, _)
ScanFrom(acc, query, candidates, i) ==
    IF i > Len(candidates) \/ acc.threw THEN acc
    ELSE ScanFrom(ScanStep(acc, query, candidates[i]), query, candidates, i + 1)

\* insert m behind every element whose distance is not larger (stable order)
RECURSIVE InsertSorted(_, _)
InsertSorted(sorted, m) ==
    IF Len(sorted) = 0 THEN <<m>>
    ELSE IF sorted[Len(sorted)].distance <= m.distance THEN Append(sorted, m)
    ELSE Append(InsertSorted(SubSeq(sorted, 1, Len(sorted) - 1), m),
                sorted[Len(sorted)])

RECURSIVE SortFrom(_, _, _)
SortFrom(ms, i, sorted) ==
    IF i > Len(ms) THEN sorted
    ELSE SortFrom(ms, i + 1, InsertSorted(sorted, ms[i]))

\* allMatches.sort((a, b) => a.distance - b.distance)
SortByDistance(ms) == SortFrom(ms, 1, <<>>)

FindBestMatch(query, candidates, threshold, margin) ==
    IF ~query.isArray THEN Failure("error")
    ELSE IF Len(candidates) = 0 THEN NoMatch
    ELSE LET acc == ScanFrom(InitScan, query, candidates, 1)
             marginCheck ==
                 \/ acc.secondBestDistance - acc.bestDistance >= margin
                 \/ acc.secondBestDistance = Infinity
         IN  IF acc.threw THEN Failure("error")
             ELSE IF ~acc.hasBest \/ acc.bestDistance >= threshold THEN NoMatch
             ELSE IF ~marginCheck THEN NoMatch
             ELSE [kind |-> "match",
                   id |-> acc.bestMatch.id,
                   distance |-> acc.bestDistance,
                   secondDistance |-> acc.secondBestDistance,
                   ranked |-> Slice(SortByDistance(acc.allMatches), MaxRanked)]

----------------------------------------------------------------------------
(* FaceIndex: the entry set *)

\* user.faceEmbeddings?.mean is truthy: any array is, a missing value is not
HasMean(face) == face.mean.isArray

\* emb => Array.isArray(emb) && emb.length > 0
IsNonEmptyArray(emb) == emb.isArray /\ Len(emb.v) > 0

\* [mean, median, ...samples.slice(0, 5)].filter(non-empty array)
BuildEmbeddings(face) ==
    SelectSeq(<<face.mean, face.median>> \o Slice(face.samples, MaxSamples),
              IsNonEmptyArray)

\* users.filter(has mean).map(to entry).filter(has embeddings)
RebuildEntries(rows) ==
    LET withMean == SelectSeq(rows, LAMBDA u : HasMean(u.faceEmbeddings))
        mapped == [i \in 1..Len(withMean) |->
                     [id |-> withMean[i].id,
                      embeddings |-> BuildEmbeddings(withMean[i].faceEmbeddings)]]
    IN  SelectSeq(mapped, LAMBDA e : Len(e.embeddings) > 0)

\* this.entries.findIndex(e => e.id === id), 0 when there is none
FindIndex(es, id) ==
    IF \E i \in 1..Len(es) : es[i].id = id
    THEN CHOOSE i \in 1..Len(es) :
             es[i].id = id /\ \A j \in 1..(i - 1) : es[j].id # id
    ELSE 0

\* the lookup left out: the entry is always pushed
PutEntry_AlwaysAppends(es, entry) == Append(es, entry)

\* replace if exists, otherwise add new entry
PutEntry(es, entry) ==
    LET existingIndex == FindIndex(es, entry.id)
    IN  IF existingIndex > 0 THEN [es EXCEPT ![existingIndex] = entry]
        ELSE Append(es, entry)

\* this.entries.filter(entry => entry.id !== userId)
RemoveEntries(es, userId) == SelectSeq(es, LAMBDA e : e.id # userId)

\* ensureLoaded() left out: an index that is not loaded is searched as it is
SearchOutcome_SkipsEnsureLoaded(es, isLoaded, query, threshold, margin) ==
    IF ~query.isArray \/ Len(query.v) = 0 THEN Failure("bad_query")
    ELSE LET result == FindBestMatch(query, es, threshold, margin)
         IN  IF result.kind = "match"
             THEN [result EXCEPT !.ranked = Slice(@, MaxRanked)]
             ELSE result

\* what search() hands back, or the error it throws
SearchOutcome(es, isLoaded, query, threshold, margin) ==
    IF ~isLoaded THEN Failure("not_loaded")
    ELSE IF ~query.isArray \/ Len(query.v) = 0 THEN Failure("bad_query")
    ELSE LET result == FindBestMatch(query, es, threshold, margin)
         IN  IF result.kind = "match"
             THEN [result EXCEPT !.ranked = Slice(@, MaxRanked)]
             ELSE result

\* maxResults is ignored: the list findBestMatch returns is handed on whole
SearchOutcomeTop_IgnoresMaxResults(es, isLoaded, query, threshold, margin, maxResults) ==
    IF ~isLoaded THEN Failure("not_loaded")
    ELSE IF ~query.isArray \/ Len(query.v) = 0 THEN Failure("bad_query")
    ELSE FindBestMatch(query, es, threshold, margin)

\* search() called with the option maxResults
SearchOutcomeTop(es, isLoaded, query, threshold, margin, maxResults) ==
    IF ~isLoaded THEN Failure("not_loaded")
    ELSE IF ~query.isArray \/ Len(query.v) = 0 THEN Failure("bad_query")
    ELSE LET result == FindBestMatch(query, es, threshold, margin)
         IN  IF result.kind = "match"
             THEN [result EXCEPT !.ranked = Slice(@, maxResults)]
             ELSE result

----------------------------------------------------------------------------
(* FaceDetectionService: the choice between the cascade and the heuristic  *)
(* strategy.  What the file system and the image processing do in one call *)
(* is an input of the call.                                                *)

MaxCalls == 3       \* detectFaces calls in one run

Images == {"portrait", "group"}

\* one detectFaces call as its environment lets it go: the image cannot be
\* decoded; the cascade file cannot be read; the cascade finds faces; it
\* finds none; the cascade path throws (decoding, embedding or quality step)
HaarRuns == {"unreadable", "load_fails", "faces", "none", "throws"}

DetectorInit ==
    /\ useHaarCascade = TRUE
    /\ cascadeLoaded = FALSE
    /\ detected = <<>>

\* initialize(): the flag follows the result of haarDetector.loadCascade()
Initialize(haarLoaded) ==
    /\ useHaarCascade' = haarLoaded
    /\ cascadeLoaded' = (cascadeLoaded \/ haarLoaded)
    /\ UNCHANGED detected

\* HaarCascadeDetector.detectFaces throws: the cascade cannot be loaded, or a
\* later step fails
HaarThrows(run) == (~cascadeLoaded /\ run = "load_fails") \/ run = "throws"

\* detectFaces(imageBuffer): the method that produced the answer
MethodUsed(run) ==
    IF run = "unreadable" THEN "error"
    ELSE IF useHaarCascade /\ ~HaarThrows(run) THEN "haar-cascade"
    ELSE "fallback"

DetectFaces(image, run) ==
    /\ Len(detected) < MaxCalls
    /\ run = "load_fails" => ~cascadeLoaded
    /\ detected' = Append(detected, [image |-> image, run |-> run,
                                     method |-> MethodUsed(run)])
    /\ IF run = "unreadable" \/ ~useHaarCascade
       THEN UNCHANGED <<useHaarCascade, cascadeLoaded>>
       ELSE /\ cascadeLoaded' = (cascadeLoaded \/ run # "load_fails")
            /\ useHaarCascade' = ~HaarThrows(run)

----------------------------------------------------------------------------
(* rateLimit: a counter per key (IP and path) over a window that starts    *)
(* with the first request of the key.  Time is counted in ticks; the       *)
(* window of one minute is WINDOW_MS ticks long.                           *)

MaxTime == 5        \* the clock stops here

WINDOW_MS == 3
MAX_REQUESTS == 2

Keys == {"10.0.0.1:/login", "10.0.0.2:/login"}

\* buckets.get(key) of a key not seen yet
NoBucket == [exists |-> FALSE, count |-> 0, start |-> 0]

LimiterInit ==
    /\ buckets = [k \in Keys |-> NoBucket]
    /\ now = 0
    /\ admitted = [k \in Keys |-> <<>>]

\* the bucket the request is counted in: created on the first request,
\* started over when the window has passed
CurrentBucket(key) ==
    LET bucket == IF buckets[key].exists THEN buckets[key]
                  ELSE [exists |-> TRUE, count |-> 0, start |-> now]
    IN  IF now - bucket.start > WINDOW_MS
        THEN [bucket EXCEPT !.count = 0, !.start = now]
        ELSE bucket

\* one request through the middleware: counted, then answered 429 or passed
\* on; requests are followed until the counter is one beyond the limit
RateLimit(key) ==
    LET bucket == CurrentBucket(key)
        count == bucket.count + 1
    IN  /\ bucket.count <= MAX_REQUESTS
        /\ buckets' = [buckets EXCEPT ![key] = [bucket EXCEPT !.count = count]]
        /\ admitted' = IF count > MAX_REQUESTS THEN admitted
                       ELSE [admitted EXCEPT ![key] = Append(@, now)]
        /\ UNCHANGED now

\* time passes between two requests
Tick ==
    /\ now < MaxTime
    /\ now' = now + 1
    /\ UNCHANGED <<buckets, admitted>>

----------------------------------------------------------------------------
(* HaarCascadeDetector: the integral image, the evaluation of one window,  *)
(* the scan over positions and scales, and the grouping of the raw         *)
(* detections.  Arrays are functions over 0..n-1; a scale is the fraction  *)
(* num/den with den a power of two, which a double holds exactly.          *)

MaxDetections == 3  \* raw detections handed to one groupDetections call

RawConfidence == 8      \* confidence: 0.8, in tenths
GroupedConfidence == 9  \* confidence: 0.9, in tenths

Max2(a, b) == IF a > b THEN a ELSE b

\* intersectionArea / unionArea as the fraction num/den
CalculateOverlap(det1, det2) ==
    LET x1 == Max2(det1.x, det2.x)
        y1 == Max2(det1.y, det2.y)
        x2 == Min2(det1.x + det1.width, det2.x + det2.width)
        y2 == Min2(det1.y + det1.height, det2.y + det2.height)
        intersectionArea == (x2 - x1) * (y2 - y1)
        det1Area == det1.width * det1.height
        det2Area == det2.width * det2.height
        unionArea == det1Area + det2Area - intersectionArea
    IN  IF x2 <= x1 \/ y2 <= y1 THEN [num |-> 0, den |-> 1]
        ELSE [num |-> intersectionArea, den |-> unionArea]

\* overlap > 0.3
IsNeighbor(overlap) == 10 * overlap.num > 3 * overlap.den

\* Math.round(sum / n) of a sum that is not negative: halves go up
Round(sum, n) == (2 * sum + n) \div (2 * n)

\* the average is cut off instead of rounded
AverageDetections_Truncates(detections) ==
    LET n == Len(detections)
    IN  [x |-> Sum([k \in 1..n |-> detections[k].x]) \div n,
         y |-> Sum([k \in 1..n |-> detections[k].y]) \div n,
         width |-> Sum([k \in 1..n |-> detections[k].width]) \div n,
         height |-> Sum([k \in 1..n |-> detections[k].height]) \div n,
         confidence |-> GroupedConfidence,
         neighbors |-> n]

AverageDetections(detections) ==
    LET n == Len(detections)
    IN  [x |-> Round(Sum([k \in 1..n |-> detections[k].x]), n),
         y |-> Round(Sum([k \in 1..n |-> detections[k].y]), n),
         width |-> Round(Sum([k \in 1..n |-> detections[k].width]), n),
         height |-> Round(Sum([k \in 1..n |-> detections[k].height]), n),
         confidence |-> GroupedConfidence,
         neighbors |-> n]

\* only a group that is kept marks the detections it absorbed as used
RECURSIVE GroupFrom_ReusesDiscarded(_, _, _, _)
GroupFrom_ReusesDiscarded(detections, used, acc, minNeighbors) ==
    LET all == [k \in 1..Len(detections) |-> k]
        unused == SelectSeq(all, LAMBDA k : ~used[k])
    IN  IF Len(unused) = 0 THEN acc
        ELSE LET i == unused[1]
                 members ==
                   SelectSeq(unused, LAMBDA j :
                     \/ j = i
                     \/ IsNeighbor(CalculateOverlap(detections[i], detections[j])))
                 group == [k \in 1..Len(members) |-> detections[members[k]]]
                 marked == [k \in 1..Len(detections) |->
                              \/ used[k] \/ k = i
                              \/ /\ Len(group) >= minNeighbors
                                 /\ \E m \in 1..Len(members) : members[m] = k]
             IN  GroupFrom_ReusesDiscarded(detections, marked,
                           [grouped |-> IF Len(group) >= minNeighbors
                                        THEN Append(acc.grouped,
                                                    AverageDetections(group))
                                        ELSE acc.grouped,
                            groups |-> Append(acc.groups, members)],
                           minNeighbors)

\* the iterations of the outer loop from the first detection not yet used on;
\* acc.grouped is the array grouped, acc.groups lists the positions of the
\* detections of every group formed, kept or not
RECURSIVE GroupFrom(_, _, _, _)
GroupFrom(detections, used, acc, minNeighbors) ==
    LET all == [k \in 1..Len(detections) |-> k]
        unused == SelectSeq(all, LAMBDA k : ~used[k])
    IN  IF Len(unused) = 0 THEN acc
        ELSE LET i == unused[1]
                 members ==
                   SelectSeq(unused, LAMBDA j :
                     \/ j = i
                     \/ IsNeighbor(CalculateOverlap(detections[i], detections[j])))
                 group == [k \in 1..Len(members) |-> detections[members[k]]]
                 marked == [k \in 1..Len(detections) |->
                              used[k] \/ \E m \in 1..Len(members) : members[m] = k]
             IN  GroupFrom(detections, marked,
                           [grouped |-> IF Len(group) >= minNeighbors
                                        THEN Append(acc.grouped,
                                                    AverageDetections(group))
                                        ELSE acc.grouped,
                            groups |-> Append(acc.groups, members)],
                           minNeighbors)

\* the groups formed by one call, in the order of their seeds
GroupsOf(detections, minNeighbors) ==
    GroupFrom(detections, [k \in 1..Len(detections) |-> FALSE],
              [grouped |-> <<>>, groups |-> <<>>], minNeighbors).groups

GroupDetections(detections, minNeighbors) ==
    IF Len(detections) = 0 THEN <<>>
    ELSE GroupFrom(detections, [k \in 1..Len(detections) |-> FALSE],
                   [grouped |-> <<>>, groups |-> <<>>], minNeighbors).grouped

\* new Array(n).fill(v)
ArrayOf(n, v) == [i \in 0..(n - 1) |-> v]

\* the gray values of an image, row by row
GrayOf(image) ==
    [i \in 0..(image.width * image.height - 1) |->
       IF image.shade = "black" THEN 0 ELSE 255]

\* the inner loop over x of one row y, from x on
RECURSIVE FillRow(_, _, _, _, _)
FillRow(integral, gray, width, y, x) ==
    IF x > width THEN integral
    ELSE LET grayIdx == (y - 1) * width + (x - 1)
             integralIdx == y * (width + 1) + x
             aboveIdx == (y - 1) * (width + 1) + x
             leftIdx == y * (width + 1) + (x - 1)
             diagIdx == (y - 1) * (width + 1) + (x - 1)
         IN  FillRow(
               [integral EXCEPT ![integralIdx] =
                  gray[grayIdx] + integral[aboveIdx] + integral[leftIdx]
                    - integral[diagIdx]],
               gray, width, y, x + 1)

\* the outer loop over y, from y on
RECURSIVE FillIntegral(_, _, _, _, _)
FillIntegral(integral, gray, width, height, y) ==
    IF y > height THEN integral
    ELSE FillIntegral(FillRow(integral, gray, width, y, 1),
                      gray, width, height, y + 1)

\* the integral array convertToGrayIntegral computes for a gray image; it is
\* worked out where it is read
IntegralOf(grayImage) ==
    FillIntegral(ArrayOf((grayImage.width + 1) * (grayImage.height + 1), 0),
                 GrayOf(grayImage), grayImage.width, grayImage.height, 1)

\* the same array for gray values given pixel by pixel
IntegralOfGray(gray, width, height) ==
    FillIntegral(ArrayOf((width + 1) * (height + 1), 0), gray, width, height, 1)

One == [num |-> 1, den |-> 1]

\* scale * factor
Times(scale, factor) ==
    [num |-> scale.num * factor.num, den |-> scale.den * factor.den]

\* Math.floor(scale * n), n not negative
Floor(scale, n) == (scale.num * n) \div scale.den

\* the corner above and left of the rectangle is not added back
GetRectangleSum_DropsTopLeft(integral, width, x, y, w, h) ==
    LET integralWidth == width + 1
        topRight == y * integralWidth + (x + w)
        bottomLeft == (y + h) * integralWidth + x
        bottomRight == (y + h) * integralWidth + (x + w)
    IN  integral[bottomRight] - integral[topRight] - integral[bottomLeft]

GetRectangleSum(integral, width, x, y, w, h) ==
    LET integralWidth == width + 1
        topLeft == y * integralWidth + x
        topRight == y * integralWidth + (x + w)
        bottomLeft == (y + h) * integralWidth + x
        bottomRight == (y + h) * integralWidth + (x + w)
    IN  integral[bottomRight] - integral[topRight] - integral[bottomLeft]
          + integral[topLeft]

RECURSIVE ComputeFeatureFrom(_, _, _, _, _, _, _)
ComputeFeatureFrom(integral, width, x, y, scale, rectangles, i) ==
    IF i > Len(rectangles) THEN 0
    ELSE LET rect == rectangles[i]
             scaledX == x + Floor(scale, rect.x)
             scaledY == y + Floor(scale, rect.y)
             scaledWidth == Floor(scale, rect.width)
             scaledHeight == Floor(scale, rect.height)
             rectSum == GetRectangleSum(integral, width, scaledX, scaledY,
                                        scaledWidth, scaledHeight)
         IN  rectSum * rect.weight
               + ComputeFeatureFrom(integral, width, x, y, scale, rectangles, i + 1)

ComputeFeature(integral, width, x, y, scale, feature) ==
    ComputeFeatureFrom(integral, width, x, y, scale, feature.rectangles, 1)

\* the sum of the outputs of the weak classifiers of one stage
StageSum(grayImage, x, y, scale, stage) ==
    Sum([c \in 1..Len(stage.weakClassifiers) |->
           LET classifier == stage.weakClassifiers[c]
               featureValue == ComputeFeature(IntegralOf(grayImage), grayImage.width,
                                              x, y, scale, classifier.feature)
           IN  IF featureValue < classifier.threshold THEN classifier.leftVal
               ELSE classifier.rightVal])

\* a failing stage does not end the loop: the last stage decides
RECURSIVE EvaluateFrom_LastStageDecides(_, _, _, _, _, _, _)
EvaluateFrom_LastStageDecides(grayImage, cascade, x, y, scale, s, visited) ==
    IF s > Len(cascade.stages) THEN [accept |-> TRUE, visited |-> visited]
    ELSE IF /\ s = Len(cascade.stages)
            /\ StageSum(grayImage, x, y, scale, cascade.stages[s])
                 < cascade.stages[s].threshold
    THEN [accept |-> FALSE, visited |-> Append(visited, s)]
    ELSE EvaluateFrom_LastStageDecides(grayImage, cascade, x, y, scale, s + 1,
                                       Append(visited, s))

\* the loop over the stages from stage s on; visited lists the stages whose
\* sum has been computed
RECURSIVE EvaluateFrom(_, _, _, _, _, _, _)
EvaluateFrom(grayImage, cascade, x, y, scale, s, visited) ==
    IF s > Len(cascade.stages) THEN [accept |-> TRUE, visited |-> visited]
    ELSE IF StageSum(grayImage, x, y, scale, cascade.stages[s])
              < cascade.stages[s].threshold
    THEN [accept |-> FALSE, visited |-> Append(visited, s)]
    ELSE EvaluateFrom(grayImage, cascade, x, y, scale, s + 1, Append(visited, s))

\* the window passes when no stage fails
EvaluateWindow(grayImage, cascade, x, y, scale) ==
    EvaluateFrom(grayImage, cascade, x, y, scale, 1, <<>>).accept

\* the last position is left out: v < extent - window
Positions_ExclusiveEnd(extent, window, stepSize) ==
    ((extent - window - 1) \div stepSize) + 1

\* the iterations of for (v = 0; v <= extent - window; v += stepSize)
Positions(extent, window, stepSize) ==
    ((extent - window) \div stepSize) + 1

\* the detections pushed while one scale is scanned, rows first
WindowsAt(grayImage, cascade, scale) ==
    LET stepSize == Max2(1, Floor(scale, 2))
        scaledWindowWidth == Floor(scale, cascade.width)
        scaledWindowHeight == Floor(scale, cascade.height)
        nx == Positions(grayImage.width, scaledWindowWidth, stepSize)
        ny == Positions(grayImage.height, scaledWindowHeight, stepSize)
        windows == [k \in 1..(nx * ny) |->
                      [x |-> ((k - 1) % nx) * stepSize,
                       y |-> ((k - 1) \div nx) * stepSize,
                       width |-> scaledWindowWidth,
                       height |-> scaledWindowHeight,
                       confidence |-> RawConfidence]]
    IN  SelectSeq(windows,
                  LAMBDA d : EvaluateWindow(grayImage, cascade, d.x, d.y, scale))

NoMaxSize == [given |-> FALSE, width |-> 0, height |-> 0]

\* the while loop over the scales, from one scale on
RECURSIVE ScanScales(_, _, _, _, _, _, _)
ScanScales(grayImage, cascade, scale, scaleFactor, minSize, maxSize, detections) ==
    IF ~(/\ scale.num * cascade.width < grayImage.width * scale.den
         /\ scale.num * cascade.height < grayImage.height * scale.den)
    THEN detections
    ELSE LET scaledWindowWidth == Floor(scale, cascade.width)
             scaledWindowHeight == Floor(scale, cascade.height)
         IN  IF \/ scaledWindowWidth < minSize.width
                \/ scaledWindowHeight < minSize.height
             THEN ScanScales(grayImage, cascade, Times(scale, scaleFactor),
                             scaleFactor, minSize, maxSize, detections)
             ELSE IF /\ maxSize.given
                     /\ \/ scaledWindowWidth > maxSize.width
                        \/ scaledWindowHeight > maxSize.height
             THEN detections
             ELSE ScanScales(grayImage, cascade, Times(scale, scaleFactor),
                             scaleFactor, minSize, maxSize,
                             detections \o WindowsAt(grayImage, cascade, scale))

\* the raw detections of detectAtMultipleScales, before they are grouped
RawDetections(grayImage, cascade, scaleFactor, minSize, maxSize) ==
    ScanScales(grayImage, cascade, One, scaleFactor, minSize, maxSize, <<>>)

\* cascades of one stage with one weak classifier over one feature
OneStage(width, height, rectangles, threshold, stageThreshold) ==
    [width |-> width, height |-> height,
     stages |-> <<[threshold |-> stageThreshold,
                   weakClassifiers |->
                     <<[feature |-> [rectangles |-> rectangles],
                        threshold |-> threshold,
                        leftVal |-> -1, rightVal |-> 1]>>]>>]

\* the feature that sums the whole window
WholeWindow(width, height) ==
    <<[x |-> 0, y |-> 0, width |-> width, height |-> height, weight |-> 1]>>

\* threshold = 0, leftVal = -1, rightVal = +1, stageThreshold = 0
AcceptAll(width, height, rectangles) == OneStage(width, height, rectangles, 0, 0)
\* the stage asks for more than one classifier can give
RejectAll(width, height) == OneStage(width, height, WholeWindow(width, height), 0, 2)
\* passes a window whose gray values add up to 600 or more
Bright(width, height) == OneStage(width, height, WholeWindow(width, height), 600, 0)

Size(n) == [width |-> n, height |-> n]
MaxSizeOf(n) == [given |-> TRUE, width |-> n, height |-> n]

SmallImages ==
    {[width |-> w, height |-> h, shade |-> sh] :
       w \in {4, 5}, h \in {4, 5}, sh \in {"black", "white"}}

\* scans of small images, and the scan of a 100x100 image with a 20x20 window
ScanInputs ==
    {[image |-> im, cascade |-> c, scaleFactor |-> f, minNeighbors |-> n,
      minSize |-> lo, maxSize |-> hi] :
       im \in SmallImages,
       c \in {AcceptAll(2, 2, WholeWindow(2, 2)), AcceptAll(3, 2, <<>>),
              RejectAll(2, 2), Bright(2, 2)},
       f \in {[num |-> 3, den |-> 2], [num |-> 2, den |-> 1]},
       n \in {1, 2},
       lo \in {Size(1), Size(3)},
       hi \in {NoMaxSize, MaxSizeOf(2)}}
    \cup
    {[image |-> [width |-> 100, height |-> 100, shade |-> "black"],
      cascade |-> AcceptAll(20, 20, <<>>), scaleFactor |-> f, minNeighbors |-> 3,
      minSize |-> lo, maxSize |-> hi] :
       f \in {[num |-> 3, den |-> 2], [num |-> 2, den |-> 1]},
       lo \in {Size(20)},
       hi \in {NoMaxSize, MaxSizeOf(20)}}

Boxes ==
    {[x |-> x, y |-> y, width |-> 4, height |-> h, confidence |-> RawConfidence] :
       x \in 0..2, y \in {0, 4}, h \in {4, 5}}

\* the raw detection lists handed to groupDetections
DetectionLists == UNION {[1..n -> Boxes] : n \in 0..MaxDetections}

NoGrouping == [detections |-> <<>>, minNeighbors |-> 0, done |-> FALSE,
               grouped |-> <<>>, groups |-> <<>>]
NoScanning == [input |-> [image |-> [width |-> 0, height |-> 0, shade |-> "black"],
                          cascade |-> RejectAll(1, 1), scaleFactor |-> One,
                          minNeighbors |-> 0, minSize |-> Size(1),
                          maxSize |-> NoMaxSize],
               done |-> TRUE, raw |-> <<>>, detections |-> <<>>]

ScannerInit ==
    /\ grouping = NoGrouping
    /\ scanning = NoScanning

\* embeddings of two coordinates, and one of another length
FrameVectors ==
    {Arr(<<0, 1>>), Arr(<<1, 4>>), Arr(<<4, 0>>), Arr(<<4, 4>>), Arr(<<1>>)}

FrameLists == UNION {[1..n -> FrameVectors] : n \in 0..MaxFrames}

\* the embeddings handed to validateEmbeddingQuality: four directions of norm
\* 5 and one embedding of another length
QualityVectors ==
    {Arr(VA), Arr(VB), Arr(<<5, 0>>), Arr(<<0, 5>>), Arr(VD)}

QualityLists == UNION {[1..n -> QualityVectors] : n \in 1..MaxFrames}

\* the options: the defaults (3 samples, 0.9, 0.0005) and a setting that two
\* of the embedding lists meet exactly (2 samples, 0.04, 0.25)
QualityOptions ==
    {[minSamples |-> m, maxMeanDistance |-> d, minVariance |-> v] :
       m \in {3, 2}, d \in {90, 4},
       v \in {[num |-> 1, den |-> 2000], [num |-> 1, den |-> 4]}}

\* validateEmbeddingQuality(embeddings, options)
ValidateCall ==
    /\ ~validating.done
    /\ validating' = [validating EXCEPT
                         !.done = TRUE,
                         !.out = ValidateEmbeddingQuality(validating.embeddings,
                                                          validating.options)]
    /\ UNCHANGED <<summing, aggregating, evaluating, loop, auth>>

MaxStages == 3      \* stages of a cascade handed to evaluateWindow

\* weak classifiers over the whole 2x2 window: one that tells a bright window
\* from a dark one, the same with its outputs exchanged, one that always
\* answers rightVal
BrightVotes ==
    [feature |-> [rectangles |-> WholeWindow(2, 2)], threshold |-> 600,
     leftVal |-> -1, rightVal |-> 1]
DarkVotes ==
    [feature |-> [rectangles |-> WholeWindow(2, 2)], threshold |-> 600,
     leftVal |-> 1, rightVal |-> -1]
AlwaysVotes ==
    [feature |-> [rectangles |-> WholeWindow(2, 2)], threshold |-> 0,
     leftVal |-> -1, rightVal |-> 1]

\* stages of one or two weak classifiers
StagesToEvaluate ==
    {[threshold |-> 0, weakClassifiers |-> <<BrightVotes>>],
     [threshold |-> 0, weakClassifiers |-> <<DarkVotes>>],
     [threshold |-> 2, weakClassifiers |-> <<BrightVotes, AlwaysVotes>>],
     [threshold |-> 0, weakClassifiers |-> <<DarkVotes, AlwaysVotes>>],
     [threshold |-> 2, weakClassifiers |-> <<AlwaysVotes>>]}

CascadesToEvaluate ==
    {[width |-> 2, height |-> 2, stages |-> st] :
       st \in UNION {[1..n -> StagesToEvaluate] : n \in 1..MaxStages}}

\* evaluateWindow(grayImage, x, y, scale) on this.cascade
EvaluateCall ==
    /\ ~evaluating.done
    /\ LET out == EvaluateFrom(evaluating.image, evaluating.cascade,
                               evaluating.x, evaluating.y, One, 1, <<>>)
       IN  evaluating' = [evaluating EXCEPT
                            !.done = TRUE,
                            !.accept = out.accept,
                            !.visited = out.visited]
    /\ UNCHANGED <<summing, aggregating, validating, loop, auth>>

MaxImage == 5       \* the longest side of an image whose scan is followed

\* the images, windows, scale factors and size limits of the scans followed
\* iteration by iteration; the cascade accepts every window
LoopInputs ==
    {[image |-> [width |-> w, height |-> h, shade |-> "black"],
      cascade |-> AcceptAll(c[1], c[2], <<>>), scaleFactor |-> f,
      minNeighbors |-> 1, minSize |-> lo, maxSize |-> hi] :
       w \in 3..MaxImage, h \in 3..MaxImage,
       c \in {<<2, 2>>, <<3, 2>>, <<4, 4>>},
       f \in {[num |-> 5, den |-> 4], [num |-> 3, den |-> 2], [num |-> 2, den |-> 1]},
       lo \in {Size(1), Size(3)},
       hi \in {NoMaxSize, MaxSizeOf(3)}}

\* the skipped iteration leaves the scale as it is
LoopStep_SkipKeepsScale ==
    /\ loop.pc = "test"
    /\ LET in == loop.input
           scale == loop.scale
           scaledWindowWidth == Floor(scale, in.cascade.width)
           scaledWindowHeight == Floor(scale, in.cascade.height)
           return == [loop EXCEPT
                        !.pc = "done",
                        !.grouped = GroupDetections(loop.detections,
                                                    in.minNeighbors)]
       IN  IF ~(/\ scale.num * in.cascade.width < in.image.width * scale.den
                /\ scale.num * in.cascade.height < in.image.height * scale.den)
           THEN loop' = return
           ELSE IF \/ scaledWindowWidth < in.minSize.width
                   \/ scaledWindowHeight < in.minSize.height
           THEN loop' = [loop EXCEPT !.skipped = Append(@, scale)]
           ELSE IF /\ in.maxSize.given
                   /\ \/ scaledWindowWidth > in.maxSize.width
                      \/ scaledWindowHeight > in.maxSize.height
           THEN loop' = return
           ELSE loop' = [loop EXCEPT
                           !.scale = Times(scale, in.scaleFactor),
                           !.evaluated = Append(@, scale),
                           !.detections =
                              @ \o WindowsAt(in.image, in.cascade, scale)]
    /\ UNCHANGED <<summing, aggregating, validating, evaluating, auth>>

\* one test of the while condition of detectAtMultipleScales and, when it
\* holds, one iteration of the loop; when the loop is left the detections
\* are grouped and returned
LoopStep ==
    /\ loop.pc = "test"
    /\ LET in == loop.input
           scale == loop.scale
           scaledWindowWidth == Floor(scale, in.cascade.width)
           scaledWindowHeight == Floor(scale, in.cascade.height)
           return == [loop EXCEPT
                        !.pc = "done",
                        !.grouped = GroupDetections(loop.detections,
                                                    in.minNeighbors)]
       IN  IF ~(/\ scale.num * in.cascade.width < in.image.width * scale.den
                /\ scale.num * in.cascade.height < in.image.height * scale.den)
           THEN loop' = return
           ELSE IF \/ scaledWindowWidth < in.minSize.width
                   \/ scaledWindowHeight < in.minSize.height
           THEN loop' = [loop EXCEPT !.scale = Times(scale, in.scaleFactor),
                                     !.skipped = Append(@, scale)]
           ELSE IF /\ in.maxSize.given
                   /\ \/ scaledWindowWidth > in.maxSize.width
                      \/ scaledWindowHeight > in.maxSize.height
           THEN loop' = return
           ELSE loop' = [loop EXCEPT
                           !.scale = Times(scale, in.scaleFactor),
                           !.evaluated = Append(@, scale),
                           !.detections =
                              @ \o WindowsAt(in.image, in.cascade, scale)]
    /\ UNCHANGED <<summing, aggregating, validating, evaluating, auth>>

\* aggregateEmbeddings(embeddings)
AggregateCall ==
    /\ ~aggregating.done
    /\ aggregating' = [aggregating EXCEPT
                          !.done = TRUE,
                          !.out = AggregateEmbeddings(aggregating.embeddings)]
    /\ UNCHANGED <<summing, validating, evaluating, loop, auth>>

\* gray values as convertToGrayIntegral rounds them: 0..255
GrayValues == {0, 100, 255}

\* width and height of the gray images whose rectangles are summed
SumSizes == {<<2, 2>>, <<3, 2>>, <<1, 3>>}

\* the gray images of one size with a rectangle within their bounds
SumInputs(sz) ==
    {[width |-> sz[1], height |-> sz[2], gray |-> g,
      x |-> r[1], y |-> r[2], w |-> r[3], h |-> r[4]] :
       g \in [0..(sz[1] * sz[2] - 1) -> GrayValues],
       r \in {q \in (0..sz[1]) \X (0..sz[2]) \X (0..sz[1]) \X (0..sz[2]) :
                q[1] + q[3] <= sz[1] /\ q[2] + q[4] <= sz[2]}}

\* convertToGrayIntegral on the gray values, then getRectangleSum
RectangleSum ==
    /\ ~summing.done
    /\ LET in == summing.input
           integral == IntegralOfGray(in.gray, in.width, in.height)
       IN  summing' = [summing EXCEPT
                         !.done = TRUE,
                         !.sum = GetRectangleSum(integral, in.width,
                                                 in.x, in.y, in.w, in.h)]
    /\ UNCHANGED <<aggregating, validating, evaluating, loop, auth>>

\* groupDetections(detections, minNeighbors)
Group ==
    /\ ~grouping.done
    /\ grouping' = [grouping EXCEPT
                      !.done = TRUE,
                      !.grouped = GroupDetections(grouping.detections,
                                                  grouping.minNeighbors),
                      !.groups = GroupsOf(grouping.detections,
                                          grouping.minNeighbors)]
    /\ UNCHANGED scanning

\* detectAtMultipleScales(grayImage, scaleFactor, minNeighbors, minSize, maxSize)
DetectAtMultipleScales ==
    /\ ~scanning.done
    /\ LET in == scanning.input
           raw == RawDetections(in.image, in.cascade, in.scaleFactor,
                                in.minSize, in.maxSize)
       IN  scanning' = [scanning EXCEPT
                          !.done = TRUE,
                          !.raw = raw,
                          !.detections = GroupDetections(raw, in.minNeighbors)]
    /\ UNCHANGED grouping

----------------------------------------------------------------------------
(* State *)

Idle == [pc |-> "idle", users |-> <<>>]
NoOp == [op |-> "none", id |-> 0, changed |-> FALSE, mean |-> Null,
         ids |-> {}, dropped |-> {}]
NoSearch == [kind |-> "none", query |-> Null, threshold |-> 0, margin |-> 0,
             seen |-> <<>>, out |-> NoMatch]

Queries == {Arr(VA), Arr(VB)}
Thresholds == {Scale}
Margins == {0}

MatchQueries == {Arr(VA), Arr(VB), Arr(VD)}
MatchThresholds == {4, Scale}
MatchMargins == {0, 4, 5}

\* the life cycle runs: a well-formed query, a missing one and an empty array
LifeFaces == {NoFace, FA}
LifeQueries == {Arr(VA), Null, Arr(<<>>)}

\* the users table and the user service at rest
NoRow == [present |-> FALSE, faceEmbedding |-> Null, faceEmbeddings |-> NoFace]
NoData == [keys |-> {}, faceEmbedding |-> Null, faceEmbeddings |-> NoFace]
SvcIdle == [pc |-> "idle", op |-> "none", id |-> 0, user |-> NoRow,
            data |-> NoData, ret |-> "none"]

ServiceInit ==
    /\ users = [id \in Ids |-> NoRow]
    /\ svc = SvcIdle
    /\ deleted = {}

\* no call of the functions followed on their own has been made
NoSumming == [input |-> [width |-> 0, height |-> 0, gray |-> <<>>,
                         x |-> 0, y |-> 0, w |-> 0, h |-> 0],
              done |-> TRUE, sum |-> 0]
NoAggregating == [embeddings |-> <<>>, done |-> TRUE, out |-> AggregateFailure]
NoValidating == [embeddings |-> <<>>,
                 options |-> [minSamples |-> 0, maxMeanDistance |-> 0,
                              minVariance |-> [num |-> 0, den |-> 1]],
                 done |-> TRUE,
                 out |-> [kind |-> "none", isValid |-> FALSE, reason |-> "none"]]
NoEvaluating == [image |-> [width |-> 0, height |-> 0, shade |-> "black"],
                 cascade |-> [width |-> 0, height |-> 0, stages |-> <<>>],
                 x |-> 0, y |-> 0, done |-> TRUE, accept |-> FALSE,
                 visited |-> <<>>]
NoLoop == [input |-> [image |-> [width |-> 0, height |-> 0, shade |-> "black"],
                      cascade |-> RejectAll(1, 1), scaleFactor |-> One,
                      minNeighbors |-> 0, minSize |-> Size(1),
                      maxSize |-> NoMaxSize],
           pc |-> "done", scale |-> One, evaluated |-> <<>>, skipped |-> <<>>,
           detections |-> <<>>, grouped |-> <<>>]
NoAuth == [pc |-> "idle", input |-> <<>>, query |-> Null, users |-> <<>>,
           searched |-> FALSE, index |-> NoMatch, fallback |-> FALSE,
           linear |-> NoMatch, method |-> "none", token |-> 0, ret |-> "none"]

CallsInit ==
    /\ summing = NoSumming
    /\ aggregating = NoAggregating
    /\ validating = NoValidating
    /\ evaluating = NoEvaluating
    /\ loop = NoLoop
    /\ auth = NoAuth

IndexInit ==
    /\ entries = <<>>
    /\ version = 0
    /\ loaded = FALSE
    /\ reb = Idle
    /\ last = NoOp
    /\ committed = <<>>
    /\ res = NoSearch

Init ==
    /\ IndexInit
    /\ DetectorInit
    /\ ServiceInit
    /\ LimiterInit
    /\ ScannerInit
    /\ CallsInit

index == <<entries, version, loaded, committed>>

\* what the operations of the index do not touch
outside == <<detector, service, limiter, scanner, calls>>

\* the row lists repo.find() can return: the users table holds at most one row
\* per id (primary key), in whatever order the database delivers them
RowLists ==
    UNION {
      {[i \in 1..n |-> [id |-> o[i], faceEmbeddings |-> fs[i]]] :
         o \in {q \in [1..n -> Ids] : \A i, j \in 1..n : i # j => q[i] # q[j]},
         fs \in [1..n -> RowFaces]} :
      n \in 0..MaxUsers}

----------------------------------------------------------------------------
(* Operations *)

\* rebuild() up to its await: the query runs and yields the rows
RebuildFind(rows) ==
    /\ reb.pc = "idle"
    /\ reb' = [pc |-> "found", users |-> rows]
    /\ UNCHANGED <<index, last, res>>

\* rebuild() up to its await: the query (or getRepository) fails
RebuildFindFails ==
    /\ reb.pc = "idle"
    /\ reb' = [pc |-> "rejected", users |-> <<>>]
    /\ UNCHANGED <<index, last, res>>

\* the new set is populated entry by entry and becomes visible one entry short
RebuildInstall_Torn ==
    /\ reb.pc = "found"
    /\ version < MaxVersion
    /\ entries' = LET new == RebuildEntries(reb.users)
                  IN  SubSeq(new, 1, Len(new) - 1)
    /\ version' = version + 1
    /\ loaded' = TRUE
    /\ committed' = RebuildEntries(reb.users)
    /\ last' = [NoOp EXCEPT !.op = "rebuild", !.changed = TRUE,
                            !.ids = IdsOf(reb.users),
                            !.dropped = IdsOf(entries) \ IdsOf(reb.users)]
    /\ res' = NoSearch
    /\ reb' = Idle

\* the rebuilt entries are pushed onto the old ones
RebuildInstall_Merges ==
    /\ reb.pc = "found"
    /\ version < MaxVersion
    /\ entries' = entries \o RebuildEntries(reb.users)
    /\ version' = version + 1
    /\ loaded' = TRUE
    /\ committed' = entries'
    /\ last' = [NoOp EXCEPT !.op = "rebuild", !.changed = TRUE,
                            !.ids = IdsOf(reb.users),
                            !.dropped = IdsOf(entries) \ IdsOf(reb.users)]
    /\ res' = NoSearch
    /\ reb' = Idle

\* rebuild() after its await: the new entry set is installed
RebuildInstall ==
    /\ reb.pc = "found"
    /\ version < MaxVersion
    /\ entries' = RebuildEntries(reb.users)
    /\ version' = version + 1
    /\ loaded' = TRUE
    /\ committed' = RebuildEntries(reb.users)
    /\ last' = [NoOp EXCEPT !.op = "rebuild", !.changed = TRUE,
                            !.ids = IdsOf(reb.users),
                            !.dropped = IdsOf(entries) \ IdsOf(reb.users)]
    /\ res' = NoSearch
    /\ reb' = Idle

\* the entry set is emptied before the query, so a failure leaves it empty
RebuildReject_EmptiesIndex ==
    /\ reb.pc = "rejected"
    /\ entries' = <<>>
    /\ committed' = <<>>
    /\ last' = [NoOp EXCEPT !.op = "rebuild_error"]
    /\ res' = NoSearch
    /\ reb' = Idle
    /\ UNCHANGED <<version, loaded>>

\* rebuild() after its await: the catch block rethrows
RebuildReject ==
    /\ reb.pc = "rejected"
    /\ last' = [NoOp EXCEPT !.op = "rebuild_error"]
    /\ res' = NoSearch
    /\ reb' = Idle
    /\ UNCHANGED index

AddUser(id, face) ==
    IF ~HasMean(face) \/ Len(BuildEmbeddings(face)) = 0
    THEN /\ last' = [NoOp EXCEPT !.op = "add", !.id = id]
         /\ res' = NoSearch
         /\ UNCHANGED <<index, reb>>
    ELSE /\ version < MaxVersion
         /\ entries' = PutEntry(entries, [id |-> id,
                                          embeddings |-> BuildEmbeddings(face)])
         /\ version' = version + 1
         /\ loaded' = TRUE
         /\ committed' = entries'
         /\ last' = [NoOp EXCEPT !.op = "add", !.id = id, !.changed = TRUE,
                                 !.mean = face.mean]
         /\ res' = NoSearch
         /\ UNCHANGED reb

\* the version is incremented whether or not an entry was removed
RemoveUser_AlwaysBumps(userId) ==
    /\ version < MaxVersion
    /\ entries' = RemoveEntries(entries, userId)
    /\ version' = version + 1
    /\ committed' = entries'
    /\ last' = [NoOp EXCEPT !.op = "remove", !.id = userId,
                            !.changed = Len(entries') < Len(entries)]
    /\ res' = NoSearch
    /\ UNCHANGED <<loaded, reb>>

RemoveUser(userId) ==
    LET kept == RemoveEntries(entries, userId)
        removed == Len(kept) < Len(entries)
    IN  /\ removed => version < MaxVersion
        /\ entries' = kept
        /\ version' = IF removed THEN version + 1 ELSE version
        /\ committed' = entries'
        /\ last' = [NoOp EXCEPT !.op = "remove", !.id = userId,
                                !.changed = removed]
        /\ res' = NoSearch
        /\ UNCHANGED <<loaded, reb>>

\* clear starts the version over
Clear_ResetsVersion ==
    /\ version < MaxVersion
    /\ entries' = <<>>
    /\ version' = 0
    /\ loaded' = FALSE
    /\ committed' = entries'
    /\ last' = [NoOp EXCEPT !.op = "clear", !.changed = TRUE]
    /\ res' = NoSearch
    /\ UNCHANGED reb

Clear ==
    /\ version < MaxVersion
    /\ entries' = <<>>
    /\ version' = version + 1
    /\ loaded' = FALSE
    /\ committed' = entries'
    /\ last' = [NoOp EXCEPT !.op = "clear", !.changed = TRUE]
    /\ res' = NoSearch
    /\ UNCHANGED reb

\* search loads the index on demand: it leaves the loaded flag set
Search_MarksLoaded(query, threshold, margin) ==
    /\ res' = [kind |-> "done", query |-> query, threshold |-> threshold,
               margin |-> margin, seen |-> entries,
               out |-> SearchOutcome(entries, loaded, query, threshold, margin)]
    /\ loaded' = TRUE
    /\ UNCHANGED <<entries, version, committed, reb, last>>

Search(query, threshold, margin) ==
    /\ res' = [kind |-> "done", query |-> query, threshold |-> threshold,
               margin |-> margin, seen |-> entries,
               out |-> SearchOutcome(entries, loaded, query, threshold, margin)]
    /\ UNCHANGED <<index, reb, last>>

\* search(query, {threshold, margin, maxResults})
SearchTop(query, threshold, margin, maxResults) ==
    /\ res' = [kind |-> "done", query |-> query, threshold |-> threshold,
               margin |-> margin, seen |-> entries,
               out |-> SearchOutcomeTop(entries, loaded, query, threshold, margin,
                                        maxResults),
               maxResults |-> maxResults]
    /\ UNCHANGED <<index, reb, last>>

\* the index under concurrent rebuilds
Next ==
    \/ \E rows \in RowLists : RebuildFind(rows) /\ UNCHANGED outside
    \/ RebuildFindFails /\ UNCHANGED outside
    \/ RebuildInstall /\ UNCHANGED outside
    \/ RebuildReject /\ UNCHANGED outside
    \/ \E id \in Ids, f \in Faces : AddUser(id, f) /\ UNCHANGED outside
    \/ \E id \in Ids : RemoveUser(id) /\ UNCHANGED outside
    \/ Clear /\ UNCHANGED outside
    \/ \E q \in Queries, t \in Thresholds, m \in Margins :
          Search(q, t, m) /\ UNCHANGED outside

Spec == Init /\ [][Next]_vars

\* matching over the entry sets addUser and removeUser can build
NextMatch ==
    \/ \E id \in Ids, f \in MatchFaces : AddUser(id, f) /\ UNCHANGED outside
    \/ \E id \in Ids : RemoveUser(id) /\ UNCHANGED outside
    \/ \E q \in MatchQueries, t \in MatchThresholds, m \in MatchMargins :
          Search(q, t, m) /\ UNCHANGED outside

SpecMatch == Init /\ [][NextMatch]_vars

\* the values of maxResults: the default and two that cut the list
TopCounts == {1, 2, MaxRanked}

\* the ranked list over the entry sets addUser and removeUser can build
NextRank ==
    \/ \E id \in Ids, f \in {FA, FB, FD} : AddUser(id, f) /\ UNCHANGED outside
    \/ \E id \in Ids : RemoveUser(id) /\ UNCHANGED outside
    \/ \E q \in Queries, t \in MatchThresholds, m \in Margins, k \in TopCounts :
          SearchTop(q, t, m, k) /\ UNCHANGED outside

SpecRank == Init /\ [][NextRank]_vars

\* the life cycle of the index: every operation, well-formed and malformed queries
NextLife ==
    \/ \E rows \in RowLists : RebuildFind(rows) /\ UNCHANGED outside
    \/ RebuildFindFails /\ UNCHANGED outside
    \/ RebuildInstall /\ UNCHANGED outside
    \/ RebuildReject /\ UNCHANGED outside
    \/ \E id \in Ids, f \in LifeFaces : AddUser(id, f) /\ UNCHANGED outside
    \/ \E id \in Ids : RemoveUser(id) /\ UNCHANGED outside
    \/ Clear /\ UNCHANGED outside
    \/ \E q \in LifeQueries, t \in Thresholds, m \in Margins :
          Search(q, t, m) /\ UNCHANGED outside

SpecLife == Init /\ [][NextLife]_vars

\* the detection service: initialize() and detectFaces calls one after another
NextDetect ==
    \/ \E haarLoaded \in BOOLEAN :
          Initialize(haarLoaded)
            /\ UNCHANGED <<index, reb, last, res, service, limiter, scanner, calls>>
    \/ \E image \in Images, run \in HaarRuns :
          DetectFaces(image, run)
            /\ UNCHANGED <<index, reb, last, res, service, limiter, scanner, calls>>

SpecDetect == Init /\ [][NextDetect]_vars

\* the rate limiter: requests of two keys as time passes
NextRate ==
    \/ \E key \in Keys :
          RateLimit(key)
            /\ UNCHANGED <<index, reb, last, res, detector, service, scanner, calls>>
    \/ Tick /\ UNCHANGED <<index, reb, last, res, detector, service, scanner, calls>>

SpecRate == Init /\ [][NextRate]_vars

\* groupDetections applied to the lists of raw detections
InitGrouping ==
    /\ IndexInit /\ DetectorInit /\ ServiceInit /\ LimiterInit /\ CallsInit
    /\ scanning = NoScanning
    /\ \E ds \in DetectionLists, n \in 0..MaxDetections :
          grouping = [NoGrouping EXCEPT !.detections = ds, !.minNeighbors = n]

NextGroup ==
    Group /\ UNCHANGED <<index, reb, last, res, detector, service, limiter, calls>>

SpecGroup == InitGrouping /\ [][NextGroup]_vars

\* detectAtMultipleScales applied to the scan inputs
InitScanning ==
    /\ IndexInit /\ DetectorInit /\ ServiceInit /\ LimiterInit /\ CallsInit
    /\ grouping = NoGrouping
    /\ \E in \in ScanInputs :
          scanning = [NoScanning EXCEPT !.input = in, !.done = FALSE]

NextScan ==
    DetectAtMultipleScales
      /\ UNCHANGED <<index, reb, last, res, detector, service, limiter, calls>>

SpecScan == InitScanning /\ [][NextScan]_vars

\* rectangle sums over the integral of small gray images
InitSumming ==
    /\ IndexInit /\ DetectorInit /\ ServiceInit /\ LimiterInit /\ ScannerInit
    /\ aggregating = NoAggregating /\ validating = NoValidating
    /\ evaluating = NoEvaluating /\ loop = NoLoop /\ auth = NoAuth
    /\ \E sz \in SumSizes : \E in \in SumInputs(sz) :
          summing = [NoSumming EXCEPT !.input = in, !.done = FALSE]

NextSum ==
    RectangleSum
      /\ UNCHANGED <<index, reb, last, res, detector, service, limiter, scanner>>

SpecSum == InitSumming /\ [][NextSum]_vars

\* aggregateEmbeddings applied to lists of embeddings
InitAggregating ==
    /\ IndexInit /\ DetectorInit /\ ServiceInit /\ LimiterInit /\ ScannerInit
    /\ summing = NoSumming /\ validating = NoValidating
    /\ evaluating = NoEvaluating /\ loop = NoLoop /\ auth = NoAuth
    /\ \E es \in FrameLists :
          aggregating = [NoAggregating EXCEPT !.embeddings = es, !.done = FALSE]

NextAggregate ==
    AggregateCall
      /\ UNCHANGED <<index, reb, last, res, detector, service, limiter, scanner>>

SpecAggregate == InitAggregating /\ [][NextAggregate]_vars

\* validateEmbeddingQuality applied to lists of embeddings
InitValidating ==
    /\ IndexInit /\ DetectorInit /\ ServiceInit /\ LimiterInit /\ ScannerInit
    /\ summing = NoSumming /\ aggregating = NoAggregating
    /\ evaluating = NoEvaluating /\ loop = NoLoop /\ auth = NoAuth
    /\ \E es \in QualityLists, o \in QualityOptions :
          validating = [NoValidating EXCEPT !.embeddings = es, !.options = o,
                                            !.done = FALSE]

NextValidate ==
    ValidateCall
      /\ UNCHANGED <<index, reb, last, res, detector, service, limiter, scanner>>

SpecValidate == InitValidating /\ [][NextValidate]_vars

\* evaluateWindow applied to the windows of 3x3 images
InitEvaluating ==
    /\ IndexInit /\ DetectorInit /\ ServiceInit /\ LimiterInit /\ ScannerInit
    /\ summing = NoSumming /\ aggregating = NoAggregating
    /\ validating = NoValidating /\ loop = NoLoop /\ auth = NoAuth
    /\ \E sh \in {"black", "white"}, c \in CascadesToEvaluate, x, y \in {0, 1} :
          evaluating = [NoEvaluating EXCEPT
                          !.image = [width |-> 3, height |-> 3, shade |-> sh],
                          !.cascade = c, !.x = x, !.y = y, !.done = FALSE]

NextEvaluate ==
    EvaluateCall
      /\ UNCHANGED <<index, reb, last, res, detector, service, limiter, scanner>>

SpecEvaluate == InitEvaluating /\ [][NextEvaluate]_vars

\* the loop over the scales followed iteration by iteration
InitLoop ==
    /\ IndexInit /\ DetectorInit /\ ServiceInit /\ LimiterInit /\ ScannerInit
    /\ summing = NoSumming /\ aggregating = NoAggregating
    /\ validating = NoValidating /\ evaluating = NoEvaluating /\ auth = NoAuth
    /\ \E in \in LoopInputs :
          loop = [NoLoop EXCEPT !.input = in, !.pc = "test"]

NextLoop ==
    LoopStep
      /\ UNCHANGED <<index, reb, last, res, detector, service, limiter, scanner>>

SpecLoop == InitLoop /\ [][NextLoop]_vars

\* the event loop runs the synchronous loop to its end: every iteration that
\* can be taken is taken
SpecLoopFair == InitLoop /\ [][NextLoop]_vars /\ WF_vars(NextLoop)

----------------------------------------------------------------------------
(* UserService: the users table and the index kept in step with it.  Each  *)
(* call is followed from one await to the next: the lookup, the write to   *)
(* the table, and the update of the index after the write has resolved.    *)
(* One call is in flight at a time, next to one rebuild.                   *)

\* the row createUser saves for one embedding
Row(v) == [present |-> TRUE, faceEmbedding |-> Arr(v),
           faceEmbeddings |-> FaceOf(Arr(v))]

\* updateData as the controller builds it: names only, a single embedding,
\* or faceEmbeddings
NameOnly == NoData
Single(v) == [keys |-> {"faceEmbedding"}, faceEmbedding |-> Arr(v),
              faceEmbeddings |-> NoFace]
Aggregate(face) == [keys |-> {"faceEmbeddings"}, faceEmbedding |-> Null,
                    faceEmbeddings |-> face]

UpdateDatas == {NameOnly, Single(VB), Aggregate(FB)}

\* Object.assign(user, updateData)
Assign(user, data) ==
    [user EXCEPT
       !.faceEmbedding = IF "faceEmbedding" \in data.keys
                         THEN data.faceEmbedding ELSE @,
       !.faceEmbeddings = IF "faceEmbeddings" \in data.keys
                          THEN data.faceEmbeddings ELSE @]

\* updateData.faceEmbedding || updateData.faceEmbeddings
HasFaceData(data) == data.keys # {}

\* repo.find(): the rows of the table, by id
TableRows(table) ==
    LET present == SelectSeq([i \in 1..MaxUsers |-> i],
                             LAMBDA i : table[i].present)
    IN  [k \in 1..Len(present) |->
           [id |-> present[k], faceEmbeddings |-> table[present[k]].faceEmbeddings]]

\* addUser(user) stores an entry
Stores(face) == HasMean(face) /\ Len(BuildEmbeddings(face)) > 0

\* createUser up to the end of its await: the row is saved under a new id
CreateSave(id, v) ==
    /\ svc.pc = "idle"
    /\ ~users[id].present /\ id \notin deleted /\ id \notin IdsOf(entries)
    /\ users' = [users EXCEPT ![id] = Row(v)]
    /\ svc' = [pc |-> "saved", op |-> "create", id |-> id, user |-> Row(v),
               data |-> NoData, ret |-> "none"]
    /\ UNCHANGED <<deleted, index, reb, last, res>>

\* createUser after the save: the saved user is added to the index
CreateFinish ==
    /\ svc.pc = "saved" /\ svc.op = "create"
    /\ AddUser(svc.id, svc.user.faceEmbeddings)
    /\ svc' = [svc EXCEPT !.pc = "idle", !.ret = "saved"]
    /\ UNCHANGED <<users, deleted>>

\* updateUserById / deleteUserById up to the end of getUserById
FindUser(op, id, data) ==
    /\ svc.pc = "idle"
    /\ svc' = IF users[id].present
              THEN [pc |-> "found", op |-> op, id |-> id, user |-> users[id],
                    data |-> data, ret |-> "none"]
              ELSE [pc |-> "idle", op |-> op, id |-> id, user |-> NoRow,
                    data |-> data,
                    ret |-> IF op = "update" THEN "null" ELSE "false"]
    /\ UNCHANGED <<users, deleted, index, reb, last, res>>

\* updateUserById: Object.assign and userRepository.save
UpdateSave ==
    /\ svc.pc = "found" /\ svc.op = "update"
    /\ LET updated == Assign(svc.user, svc.data)
       IN  /\ users' = [users EXCEPT ![svc.id] = updated]
           /\ svc' = [svc EXCEPT !.pc = "saved", !.user = updated]
    /\ UNCHANGED <<deleted, index, reb, last, res>>

\* updateUserById after the save: the index is updated if face data changed
UpdateFinish ==
    /\ svc.pc = "saved" /\ svc.op = "update"
    /\ IF HasFaceData(svc.data)
       THEN AddUser(svc.id, svc.user.faceEmbeddings)
       ELSE UNCHANGED <<index, reb, last, res>>
    /\ svc' = [svc EXCEPT !.pc = "idle", !.ret = "updated"]
    /\ deleted' = IF HasFaceData(svc.data) /\ Stores(svc.user.faceEmbeddings)
                  THEN deleted \ {svc.id} ELSE deleted
    /\ UNCHANGED users

\* deleteUserById: userRepository.remove
DeleteRemove ==
    /\ svc.pc = "found" /\ svc.op = "delete"
    /\ users' = [users EXCEPT ![svc.id] = NoRow]
    /\ svc' = [svc EXCEPT !.pc = "removed"]
    /\ UNCHANGED <<deleted, index, reb, last, res>>

\* deleteUserById after the remove: the index entry goes and true is returned
DeleteFinish ==
    /\ svc.pc = "removed" /\ svc.op = "delete"
    /\ RemoveUser(svc.id)
    /\ svc' = [svc EXCEPT !.pc = "idle", !.ret = "true"]
    /\ deleted' = deleted \cup {svc.id}
    /\ UNCHANGED users

\* rebuild() up to its await, on the table as it is
RebuildFromTable ==
    /\ RebuildFind(TableRows(users))
    /\ UNCHANGED service

\* the user service next to rebuilds and searches
NextService ==
    \/ \E id \in Ids : CreateSave(id, VA) /\ UNCHANGED <<detector, limiter, scanner, calls>>
    \/ CreateFinish /\ UNCHANGED <<detector, limiter, scanner, calls>>
    \/ \E id \in Ids, data \in UpdateDatas :
          FindUser("update", id, data) /\ UNCHANGED <<detector, limiter, scanner, calls>>
    \/ UpdateSave /\ UNCHANGED <<detector, limiter, scanner, calls>>
    \/ UpdateFinish /\ UNCHANGED <<detector, limiter, scanner, calls>>
    \/ \E id \in Ids :
          FindUser("delete", id, NoData) /\ UNCHANGED <<detector, limiter, scanner, calls>>
    \/ DeleteRemove /\ UNCHANGED <<detector, limiter, scanner, calls>>
    \/ DeleteFinish /\ UNCHANGED <<detector, limiter, scanner, calls>>
    \/ RebuildFromTable /\ UNCHANGED <<detector, limiter, scanner, calls>>
    \/ RebuildInstall /\ UNCHANGED outside
    \/ \E q \in Queries, t \in Thresholds, m \in Margins :
          Search(q, t, m) /\ UNCHANGED outside

SpecService == Init /\ [][NextService]_vars

\* a fresh process: the index is empty and not loaded, the users table holds
\* the rows earlier processes have saved
InitBoot ==
    /\ IndexInit /\ DetectorInit /\ LimiterInit /\ ScannerInit /\ CallsInit
    /\ users \in [Ids -> {NoRow, Row(VA)}]
    /\ svc = SvcIdle
    /\ deleted = {}

\* the user service, rebuilds and clear after a restart
NextBoot ==
    \/ \E id \in Ids : CreateSave(id, VA) /\ UNCHANGED <<detector, limiter, scanner, calls>>
    \/ CreateFinish /\ UNCHANGED <<detector, limiter, scanner, calls>>
    \/ \E id \in Ids, data \in UpdateDatas :
          FindUser("update", id, data) /\ UNCHANGED <<detector, limiter, scanner, calls>>
    \/ UpdateSave /\ UNCHANGED <<detector, limiter, scanner, calls>>
    \/ UpdateFinish /\ UNCHANGED <<detector, limiter, scanner, calls>>
    \/ \E id \in Ids :
          FindUser("delete", id, NoData) /\ UNCHANGED <<detector, limiter, scanner, calls>>
    \/ DeleteRemove /\ UNCHANGED <<detector, limiter, scanner, calls>>
    \/ DeleteFinish /\ UNCHANGED <<detector, limiter, scanner, calls>>
    \/ RebuildFromTable /\ UNCHANGED <<detector, limiter, scanner, calls>>
    \/ RebuildInstall /\ UNCHANGED outside
    \/ Clear /\ UNCHANGED outside

SpecBoot == InitBoot /\ [][NextBoot]_vars

----------------------------------------------------------------------------
(* UserService.findByEmbedding: the stored users are read, the index is    *)
(* rebuilt if it is not loaded, the index is searched, and the users are   *)
(* searched linearly when the index yields no match.  Stored vectors have  *)
(* unit length; their coordinates are counted in units of 1/UnitLength.    *)

UnitLength == 5
COSINE_DISTANCE_THRESHOLD == 60   \* 0.6, in units of 1/Scale
DISTANCE_MARGIN == 5              \* 0.05, in units of 1/Scale
FallbackSamples == 3              \* samples.slice(0, 3)

\* FaceUtils.normalize: a zero vector and an empty one are copied
Normalize(v) ==
    LET magnitude == Sqrt(Dot(v, v))
    IN  IF Len(v) = 0 \/ magnitude = 0 THEN v
        ELSE [i \in 1..Len(v) |-> (v[i] * UnitLength) \div magnitude]

\* embeddings.filter(array of finite numbers).map(normalize)
NormalizeAll(embeddings) ==
    LET valid == SelectSeq(embeddings, LAMBDA e : e.isArray)
    IN  [k \in 1..Len(valid) |-> Arr(Normalize(valid[k].v))]

\* a quotient that comes out whole
Whole(f) == f.num \div f.den

WholeVector(fs) == [i \in 1..Len(fs) |-> Whole(fs[i])]

\* the row createUser saves for the embeddings of one enrolment
Enrolled(embeddings) ==
    LET samples == NormalizeAll(embeddings)
        aggregated == AggregateEmbeddings(samples)
    IN  [present |-> TRUE,
         faceEmbedding |-> Arr(WholeVector(aggregated.mean)),
         faceEmbeddings |-> [samples |-> samples,
                             mean |-> Arr(WholeVector(aggregated.mean)),
                             median |-> Arr(WholeVector(aggregated.median))]]

\* a row from before faceEmbeddings existed: the single embedding only
Legacy(v) == [present |-> TRUE, faceEmbedding |-> Arr(v), faceEmbeddings |-> NoFace]

\* one frame of the first face; five frames of a second face of which the
\* fourth shows the first face; the same with the odd frame up front
OneFrame == <<Arr(<<8, 6>>)>>
OddFrameLate == <<Arr(<<0, 5>>), Arr(<<0, 5>>), Arr(<<0, 5>>), Arr(<<4, 3>>),
                  Arr(<<-4, -3>>)>>
OddFrameEarly == <<Arr(<<4, 3>>), Arr(<<0, 5>>), Arr(<<0, 5>>), Arr(<<0, 5>>),
                   Arr(<<-4, -3>>)>>

StoredRows == {NoRow, Enrolled(OneFrame), Enrolled(OddFrameLate),
               Enrolled(OddFrameEarly), Legacy(VA)}

\* what the caller hands in: one frame, two frames, a frame of another
\* length, no usable frame
AuthInputs == {<<Arr(<<5, 0>>)>>, <<Arr(<<4, 3>>)>>, <<Arr(<<6, 8>>)>>,
               <<Arr(<<0, -5>>)>>, <<Arr(<<0, 10>>), Arr(<<0, 5>>)>>,
               <<Arr(VD)>>, <<Null>>}

\* userRepository.find(): the rows of the table, by id
FoundUsers(table) ==
    LET present == SelectSeq([i \in 1..MaxUsers |-> i],
                             LAMBDA i : table[i].present)
    IN  [k \in 1..Len(present) |->
           [id |-> present[k],
            faceEmbedding |-> table[present[k]].faceEmbedding,
            faceEmbeddings |-> table[present[k]].faceEmbeddings]]

\* the embeddings of one user the linear fallback compares
FallbackEmbeddings(user) ==
    IF user.faceEmbeddings # NoFace
    THEN <<user.faceEmbeddings.mean, user.faceEmbeddings.median>>
         \o Slice(user.faceEmbeddings.samples, FallbackSamples)
    ELSE IF user.faceEmbedding.isArray THEN <<user.faceEmbedding>>
    ELSE <<>>

\* users.map(to candidate).filter(has embeddings) of the linear fallback
LinearCandidates(found, query) ==
    LET mapped == [k \in 1..Len(found) |->
                     [id |-> found[k].id,
                      embeddings |-> SelectSeq(FallbackEmbeddings(found[k]),
                                               LAMBDA emb : Comparable(query, emb))]]
    IN  SelectSeq(mapped, LAMBDA c : Len(c.embeddings) > 0)

\* findByEmbedding up to the end of its first await: the input is normalised
\* and averaged, the stored users are read
AuthFind(input) ==
    /\ auth.pc \in {"idle", "done"}
    /\ LET embeddings == NormalizeAll(input)
           found == FoundUsers(users)
       IN  IF Len(embeddings) = 0
           THEN auth' = [NoAuth EXCEPT !.pc = "done", !.input = input,
                                       !.ret = "error"]
           ELSE LET query == Arr(WholeVector(AggregateEmbeddings(embeddings).mean))
                IN  IF Len(found) = 0
                    THEN auth' = [NoAuth EXCEPT !.pc = "done", !.input = input,
                                                !.query = query, !.ret = "null"]
                    ELSE auth' = [NoAuth EXCEPT !.pc = "found", !.input = input,
                                                !.query = query, !.users = found]
    /\ UNCHANGED <<index, reb, last, res, service>>

\* the index is not loaded: rebuild() is called and runs up to its await
AuthRebuild ==
    /\ auth.pc = "found"
    /\ ~loaded
    /\ RebuildFind(FoundUsers(users))
    /\ auth' = [auth EXCEPT !.pc = "rebuilding"]
    /\ UNCHANGED service

\* the index is not loaded and the query of rebuild() fails
AuthRebuildFails ==
    /\ auth.pc = "found"
    /\ ~loaded
    /\ RebuildFindFails
    /\ auth' = [auth EXCEPT !.pc = "rebuilding"]
    /\ UNCHANGED service

\* what the call returns once the index and, if run, the fallback have answered
AuthResult(call, isLoaded, indexOut, linearOut) ==
    LET byIndex == /\ indexOut.kind = "match"
                   /\ \E k \in 1..Len(call.users) : call.users[k].id = indexOut.id
        done == [call EXCEPT !.pc = "done", !.searched = isLoaded,
                             !.index = indexOut]
        fellBack == [done EXCEPT !.fallback = TRUE, !.linear = linearOut]
    IN  IF byIndex
        THEN [done EXCEPT !.method = "index", !.token = indexOut.id,
                          !.ret = "user"]
        ELSE IF linearOut.kind = "error" THEN [fellBack EXCEPT !.ret = "error"]
        ELSE IF linearOut.kind = "match"
        THEN [fellBack EXCEPT !.method = "linear", !.token = linearOut.id,
                              !.ret = "user"]
        ELSE [fellBack EXCEPT !.ret = "null"]

\* the rest of findByEmbedding, which runs without an await: index search,
\* linear fallback, token
AuthMatch ==
    /\ \/ auth.pc = "found" /\ loaded
       \/ auth.pc = "rebuilding" /\ reb.pc = "idle"
    /\ \E indexOut \in {IF loaded
                         THEN SearchOutcome(entries, loaded, auth.query,
                                            COSINE_DISTANCE_THRESHOLD,
                                            DISTANCE_MARGIN)
                         ELSE NoMatch} :
         \E linearOut \in {FindBestMatch(auth.query,
                                         LinearCandidates(auth.users, auth.query),
                                         COSINE_DISTANCE_THRESHOLD,
                                         DISTANCE_MARGIN)} :
           auth' = AuthResult(auth, loaded, indexOut, linearOut)
    /\ UNCHANGED <<index, reb, last, res, service>>

\* a process with users in storage and an index that is not loaded
InitAuth ==
    /\ IndexInit /\ DetectorInit /\ LimiterInit /\ ScannerInit /\ CallsInit
    /\ users \in [Ids -> StoredRows]
    /\ svc = SvcIdle
    /\ deleted = {}

NextAuth ==
    \/ \E input \in AuthInputs :
          AuthFind(input)
          /\ UNCHANGED <<detector, limiter, scanner, summing, aggregating,
                         validating, evaluating, loop>>
    \/ AuthRebuild
       /\ UNCHANGED <<detector, limiter, scanner, summing, aggregating,
                      validating, evaluating, loop>>
    \/ AuthRebuildFails
       /\ UNCHANGED <<detector, limiter, scanner, summing, aggregating,
                      validating, evaluating, loop>>
    \/ RebuildInstall /\ UNCHANGED outside
    \/ RebuildReject /\ UNCHANGED outside
    \/ AuthMatch
       /\ UNCHANGED <<detector, limiter, scanner, summing, aggregating,
                      validating, evaluating, loop>>

SpecAuth == InitAuth /\ [][NextAuth]_vars

----------------------------------------------------------------------------
(* Which operation a step belongs to, read off the variables it writes *)

IsInstallStep == reb.pc = "found" /\ reb'.pc = "idle"
IsRejectStep == reb.pc = "rejected" /\ reb'.pc = "idle"
IsAddStep == last'.op = "add" /\ res' = NoSearch /\ reb' = reb
IsRemoveStep == last'.op = "remove" /\ res' = NoSearch /\ reb' = reb
IsClearStep == last'.op = "clear" /\ res' = NoSearch /\ reb' = reb
IsSearchStep == res'.kind = "done" /\ last' = last /\ reb' = reb

(* The matching rule stated over sets, for comparison with findBestMatch *)

SetMin(D) == CHOOSE d \in D : \A x \in D : d <= x

\* the entries with at least one variant of the query's length
ComparableEntries(q, es) ==
    {i \in 1..Len(es) :
       \E j \in 1..Len(es[i].embeddings) : Comparable(q, es[i].embeddings[j])}

\* the per-entry minimum distance
EntryMin(q, e) ==
    SetMin({CosineDistance(q, e.embeddings[j]) :
              j \in {x \in 1..Len(e.embeddings) : Comparable(q, e.embeddings[x])}})

BestOf(q, es) == SetMin({EntryMin(q, es[i]) : i \in ComparableEntries(q, es)})

\* the smallest per-entry minimum once one entry that achieves the best is set aside
SecondOf(q, es) ==
    LET ce == ComparableEntries(q, es)
        b == CHOOSE i \in ce : EntryMin(q, es[i]) = BestOf(q, es)
    IN  SetMin({EntryMin(q, es[i]) : i \in ce \ {b}})

Searched == res.kind = "done"
Matched == Searched /\ res.out.kind = "match"

----------------------------------------------------------------------------
(* C1: when the query of a rebuild fails, the call ends with entries,      *)
(* version and loaded exactly as they were, and the caller gets an error.  *)
C1_FailedRebuildKeepsIndex ==
    [][IsRejectStep =>
         /\ entries' = entries
         /\ version' = version
         /\ loaded' = loaded
         /\ last'.op = "rebuild_error"]_vars

\* a rebuild has failed on a loaded, non-empty index
C1_Witness == last.op = "rebuild_error" /\ loaded /\ Len(entries) > 0

(* C2: add, remove and rebuild exclude each other: between the moment a    *)
(* rebuild has read the users and the moment it installs the new set, no   *)
(* other operation changes the entry set.                                  *)
C2_RebuildExcludesWriters ==
    [][(reb.pc = "found" /\ reb'.pc = "found") => entries' = entries]_vars

(* C3: every search evaluates the entry set left by the most recent        *)
(* completed mutation, whole: never a partially populated set, also while  *)
(* a rebuild is in flight.                                                 *)
C3_SearchSeesCompleteSet == Searched => res.seen = committed

\* a search ran on a non-empty set while a rebuild that will change it is in flight
C3_Witness ==
    /\ Searched /\ Len(res.seen) > 0
    /\ reb.pc = "found" /\ RebuildEntries(reb.users) # entries

(* C4: search returns a match iff best < threshold and (there is no        *)
(* second-best or second - best >= margin), best and second being the      *)
(* smallest and second-smallest per-entry minimum distances; the identity  *)
(* returned is an entry that achieves best.                                *)
C4_MatchIffThresholdAndMargin ==
    Searched =>
      LET q == res.query
          ce == ComparableEntries(q, res.seen)
          accept ==
            /\ ce # {}
            /\ BestOf(q, res.seen) < res.threshold
            /\ \/ Cardinality(ce) = 1
               \/ SecondOf(q, res.seen) - BestOf(q, res.seen) >= res.margin
      IN  /\ (res.out.kind = "match") <=> accept
          /\ res.out.kind = "match" =>
                /\ res.out.distance = BestOf(q, res.seen)
                /\ \E i \in ce : /\ res.seen[i].id = res.out.id
                                  /\ EntryMin(q, res.seen[i]) = res.out.distance

\* a search was rejected by the margin although its best distance was below the threshold
C4_Witness ==
    /\ Searched /\ res.out.kind = "null"
    /\ Cardinality(ComparableEntries(res.query, res.seen)) >= 2
    /\ BestOf(res.query, res.seen) < res.threshold

(* C5 as stated: a match accepted with an infinite second-best distance    *)
(* means the index held exactly one entry.                                 *)
C5_InfiniteSecondMeansOneEntry ==
    (Matched /\ res.out.secondDistance = Infinity) => Len(res.seen) = 1

(* C5 amended: a match accepted with an infinite second-best distance      *)
(* means exactly one entry had a variant of the query's length; with two   *)
(* or more such entries a match has a real second-best distance that       *)
(* passed the margin test.                                                 *)
C5_InfiniteSecondMeansOneComparable ==
    Matched =>
      LET n == Cardinality(ComparableEntries(res.query, res.seen))
      IN  /\ res.out.secondDistance = Infinity => n = 1
          /\ n >= 2 => /\ res.out.secondDistance < Infinity
                        /\ res.out.secondDistance - res.out.distance >= res.margin

\* a match with an infinite second-best distance on an index of two entries
C5_Witness ==
    Matched /\ res.out.secondDistance = Infinity /\ Len(res.seen) >= 2

\* add(id, [e]) with a non-degenerate e, then search(e, 1.0, 0.0)
SearchedAfterAdd ==
    /\ last.op = "add" /\ last.changed
    /\ Dot(last.mean.v, last.mean.v) > 0
    /\ Searched /\ res.query = last.mean
    /\ res.threshold = Scale /\ res.margin = 0

(* C6 as stated: after add(id, [e]) the search for e with threshold 1.0    *)
(* and margin 0.0 returns id at distance 0, whatever else the index holds. *)
C6_AddThenSearchFindsId ==
    SearchedAfterAdd =>
      res.out.kind = "match" /\ res.out.id = last.id /\ res.out.distance = 0

\* the positions of the entries with a variant at distance 0 from q
AtZero(q, es) ==
    {i \in ComparableEntries(q, es) : EntryMin(q, es[i]) = 0}

(* C6 amended: after add(id, [e]) the search for e with threshold 1.0 and  *)
(* margin 0.0 returns a match at distance 0; it is the first entry in      *)
(* index order with a variant at distance 0 from e, hence id whenever no   *)
(* other entry has such a variant.                                         *)
C6_AddThenSearchFindsFirstAtZero ==
    SearchedAfterAdd =>
      LET zero == AtZero(res.query, res.seen)
      IN  /\ res.out.kind = "match" /\ res.out.distance = 0
          /\ \E i \in zero : res.seen[i].id = last.id
          /\ res.out.id = res.seen[SetMin(zero)].id
          /\ (\A i \in zero : res.seen[i].id = last.id) => res.out.id = last.id

\* the search after the add found the added id among two entries
C6_Witness ==
    SearchedAfterAdd /\ Len(res.seen) >= 2 /\ res.out.id = last.id

(* C7: rebuild replaces the entry set: after a rebuild the index holds     *)
(* only ids of the rows it was rebuilt from, and no search returns an id   *)
(* that the rebuild dropped.                                               *)
C7_RebuildReplaces ==
    last.op = "rebuild" =>
      /\ IdsOf(entries) \subseteq last.ids
      /\ Matched => res.out.id \in last.ids /\ res.out.id \notin last.dropped

\* a search matched after a rebuild that dropped an id the index held before
C7_Witness == last.op = "rebuild" /\ last.dropped # {} /\ Matched

(* C8: the version never decreases, and it grows by exactly one on every   *)
(* successful rebuild and on every add that stores an entry.               *)
C8_VersionMonotonic ==
    [][/\ version' >= version
       /\ IsInstallStep => version' = version + 1
       /\ (IsAddStep /\ last'.changed) => version' = version + 1]_vars

\* a rebuild has completed after an earlier mutation
C8_Witness == last.op = "rebuild" /\ version >= 2

NoDuplicateIds ==
    \A i, j \in 1..Len(entries) : i # j => entries[i].id # entries[j].id

(* C9: no two entries share an id; an add that stores an entry replaces    *)
(* the entry of that id in place when there is one and appends one entry   *)
(* otherwise, and leaves every other entry as it was.                      *)
C9_AddReplacesOrAppends ==
    /\ []NoDuplicateIds
    /\ [][(IsAddStep /\ last'.changed) =>
            LET i == FindIndex(entries, last'.id)
                n == Len(entries)
            IN  IF i > 0
                THEN /\ Len(entries') = n
                     /\ entries'[i].id = last'.id
                     /\ entries'[i].embeddings[1] = last'.mean
                     /\ \A j \in 1..n : j # i => entries'[j] = entries[j]
                ELSE /\ Len(entries') = n + 1
                     /\ entries'[n + 1].id = last'.id
                     /\ entries'[n + 1].embeddings[1] = last'.mean
                     /\ \A j \in 1..n : entries'[j] = entries[j]]_vars

\* the last add replaced the first of two entries in place
C9_Witness ==
    /\ last.op = "add" /\ last.changed
    /\ Len(entries) = 2 /\ entries[1].id = last.id

(* C10: remove of an id the index does not hold changes neither the entry  *)
(* set nor the version; remove of an id it holds deletes exactly that      *)
(* entry, keeps the others as they were and adds one to the version.       *)
C10_RemoveEffect ==
    [][IsRemoveStep =>
         LET i == FindIndex(entries, last'.id)
             n == Len(entries)
         IN  IF i = 0
             THEN entries' = entries /\ version' = version /\ ~last'.changed
             ELSE /\ entries' = SubSeq(entries, 1, i - 1) \o SubSeq(entries, i + 1, n)
                  /\ version' = version + 1
                  /\ last'.changed]_vars

\* an entry was removed and another one is still there
C10_Witness == last.op = "remove" /\ last.changed /\ Len(entries) >= 1

\* a variant the index may keep by the specification: a non-empty array of
\* non-zero magnitude
ValidVariant(emb) == emb.isArray /\ Len(emb.v) > 0 /\ Dot(emb.v, emb.v) > 0

(* C11: every stored entry has at least one valid (non-empty and            *)
(* non-degenerate) variant: an add or rebuild input whose embeddings are   *)
(* all missing, empty or of zero magnitude never becomes an entry.         *)
C11_EveryEntryHasValidVariant ==
    \A i \in 1..Len(entries) :
       \E j \in 1..Len(entries[i].embeddings) :
          ValidVariant(entries[i].embeddings[j])

WellFormed(query) == query.isArray /\ Len(query.v) > 0

C13_SearchIsReadOnly ==
    [][IsSearchStep =>
         entries' = entries /\ version' = version /\ loaded' = loaded]_vars

\* a search has failed on an index that was cleared after it had been loaded
C13_Witness ==
    Searched /\ res.out.kind = "not_loaded" /\ version >= 2

(* C14: the distance function is never applied to a query and a variant of *)
(* different lengths, so no search fails inside the matching; an entry     *)
(* whose variants all differ in length from the query is skipped: it is    *)
(* not among the ranked candidates, and best and second are the smallest   *)
(* and second-smallest minimum over the other entries only.                *)
C14_MismatchedLengthsSkipped ==
    Searched =>
      LET q == res.query
          ce == ComparableEntries(q, res.seen)
      IN  /\ res.out.kind # "error"
          /\ Matched =>
               /\ {res.out.ranked[k].id : k \in 1..Len(res.out.ranked)}
                    \subseteq {res.seen[i].id : i \in ce}
               /\ Len(res.out.ranked) = Min2(MaxRanked, Cardinality(ce))
               /\ res.out.distance = BestOf(q, res.seen)
               /\ res.out.secondDistance =
                    IF Cardinality(ce) = 1 THEN Infinity ELSE SecondOf(q, res.seen)

\* a search matched while the index held an entry with no variant of the
\* query's length
C14_Witness ==
    /\ Matched
    /\ \E i \in 1..Len(res.seen) : i \notin ComparableEntries(res.query, res.seen)

\* a detectFaces call has been made
IsDetectStep == Len(detected') = Len(detected) + 1

(* C15: a detectFaces call never changes the shared detector state: the    *)
(* choice between the cascade and the heuristic strategy is the same       *)
(* after the call as before it, and a loaded cascade stays loaded, so the  *)
(* strategy used for an image does not depend on an earlier failure.       *)
C15_DetectKeepsDetectorState ==
    [][IsDetectStep =>
         /\ useHaarCascade' = useHaarCascade
         /\ cascadeLoaded => cascadeLoaded']_vars

\* the times in the span of one window that starts at t
InSpan(times, t) ==
    {i \in 1..Len(times) : t <= times[i] /\ times[i] < t + WINDOW_MS}

(* C18: per key, at most MAX_REQUESTS requests are passed on to the        *)
(* handler in any span of one minute: every further request of that        *)
(* minute is answered with 429.                                            *)
C18_AtMostMaxPerMinute ==
    \A key \in Keys, t \in 0..MaxTime :
       Cardinality(InSpan(admitted[key], t)) <= MAX_REQUESTS

\* every two of the detections overlap with an IoU above 0.3
PairwiseOverlapping(ds) ==
    \A i, j \in 1..Len(ds) :
       i # j =>
         LET a == ds[i]
             b == ds[j]
             w == Min2(a.x + a.width, b.x + b.width) - Max2(a.x, b.x)
             h == Min2(a.y + a.height, b.y + b.height) - Max2(a.y, b.y)
         IN  /\ w > 0 /\ h > 0
             /\ 10 * w * h > 3 * (a.width * a.height + b.width * b.height - w * h)

\* g is the arithmetic mean of the numbers ns
IsMean(g, ns) == g * Len(ns) = Sum(ns)

\* g is the arithmetic mean of the numbers ns rounded to the nearest integer,
\* a half rounded up
IsRoundedMean(g, ns) ==
    /\ 2 * Sum(ns) - Len(ns) < 2 * Len(ns) * g
    /\ 2 * Len(ns) * g <= 2 * Sum(ns) + Len(ns)

\* groupDetections was given pairwise-overlapping detections and nothing else
GroupedOneCluster ==
    /\ grouping.done /\ grouping.minNeighbors >= 1
    /\ PairwiseOverlapping(grouping.detections)

IsAcceptAll(cascade) ==
    /\ Len(cascade.stages) = 1
    /\ cascade.stages[1].threshold = 0
    /\ Len(cascade.stages[1].weakClassifiers) = 1
    /\ LET c == cascade.stages[1].weakClassifiers[1]
       IN  /\ c.threshold = 0 /\ c.leftVal = -1 /\ c.rightVal = 1
           /\ \A r \in 1..Len(c.feature.rectangles) :
                 c.feature.rectangles[r].weight >= 0

\* a scan was made with an always-accepting cascade whose window is smaller
\* than the image, not below minSize and not above maxSize
ScannedAcceptAll ==
    LET in == scanning.input IN
    /\ scanning.done /\ IsAcceptAll(in.cascade)
    /\ in.cascade.width < in.image.width
    /\ in.cascade.height < in.image.height
    /\ in.minSize.width <= in.cascade.width
    /\ in.minSize.height <= in.cascade.height
    /\ in.maxSize.given =>
         /\ in.cascade.width <= in.maxSize.width
         /\ in.cascade.height <= in.maxSize.height

(* C20: with a one-stage cascade that always accepts and minSize not above *)
(* the window, the scan at scale 1.0 yields a raw detection of the         *)
(* window's size at every position (x, y) of the step grid (step 2) with   *)
(* 0 <= x <= width - window width and 0 <= y <= height - window height:    *)
(* for a 100x100 image and a 20x20 window, at every even x, y in 0..80.    *)
C20_AcceptAllHitsEveryPosition ==
    ScannedAcceptAll =>
      LET in == scanning.input
      IN  \A x \in 0..(in.image.width - in.cascade.width),
             y \in 0..(in.image.height - in.cascade.height) :
             (x % 2 = 0 /\ y % 2 = 0) =>
               \E k \in 1..Len(scanning.raw) :
                  /\ scanning.raw[k].x = x /\ scanning.raw[k].y = y
                  /\ scanning.raw[k].width = in.cascade.width
                  /\ scanning.raw[k].height = in.cascade.height

\* the 100x100 image was scanned with the 20x20 window: 41 x 41 raw
\* detections at scale 1.0, the last one at (80, 80)
C20_Witness ==
    /\ ScannedAcceptAll
    /\ scanning.input.image.width = 100 /\ scanning.input.cascade.width = 20
    /\ Len(scanning.raw) >= 41 * 41
    /\ scanning.raw[41 * 41].x = 80 /\ scanning.raw[41 * 41].y = 80

\* updateUserById returns after a save of new face data
IsUpdateFinish ==
    svc.pc = "saved" /\ svc.op = "update" /\ svc'.pc = "idle"

\* the embeddings an update brings
NewEmbeddings(data) ==
    IF "faceEmbeddings" \in data.keys THEN BuildEmbeddings(data.faceEmbeddings)
    ELSE <<data.faceEmbedding>>

(* C16: when updateUserById succeeds with new face data for a user, the    *)
(* index entry of that user holds the new embeddings, so that later        *)
(* searches are matched against the updated face data and not the old.     *)
C16_UpdateReachesIndex ==
    [][(IsUpdateFinish /\ HasFaceData(svc.data)) =>
         \E i \in 1..Len(entries') :
            /\ entries'[i].id = svc.id
            /\ \A k \in 1..Len(NewEmbeddings(svc.data)) :
                  \E j \in 1..Len(entries'[i].embeddings) :
                     entries'[i].embeddings[j] = NewEmbeddings(svc.data)[k]]_vars

(* C17: after deleteUserById(id) has returned true the index holds no      *)
(* entry for id and no search returns id, until a user with that id is     *)
(* added again.                                                            *)
C17_DeletedStaysOut ==
    \A id \in deleted :
       /\ id \notin IdsOf(entries)
       /\ Matched => res.out.id # id

\* the gray values of the pixels of the rectangle, row by row
RectanglePixels(in) ==
    [k \in 1..(in.w * in.h) |->
       in.gray[(in.y + ((k - 1) \div in.w)) * in.width + in.x + ((k - 1) % in.w)]]

(* C21: for every image and every rectangle (x, y, w, h) within the image  *)
(* bounds, the rectangle sum read from the summed-area table equals the   *)
(* sum of the gray values of the pixels of the rectangle taken one by one. *)
C21_RectangleSumIsPixelSum ==
    summing.done => summing.sum = Sum(RectanglePixels(summing.input))

\* a rectangle away from the top and the left border over pixels of
\* different gray values has been summed, with bright pixels above and left
C21_Witness ==
    LET in == summing.input IN
    /\ summing.done /\ in.width = 3 /\ in.height = 2
    /\ in.x = 1 /\ in.y = 1 /\ in.w = 2 /\ in.h = 1
    /\ in.gray[0] = 255 /\ in.gray[4] = 100 /\ in.gray[5] = 255
    /\ summing.sum = 355

\* the embeddings all have the length of the first one
SameLength(es) == \A k \in 1..Len(es) : Len(es[k].v) = Len(es[1].v)

\* the k-th smallest of the numbers ns, counted with repetitions
KthSmallest(ns, k) ==
    CHOOSE v \in {ns[j] : j \in 1..Len(ns)} :
       /\ Cardinality({j \in 1..Len(ns) : ns[j] < v}) < k
       /\ Cardinality({j \in 1..Len(ns) : ns[j] <= v}) >= k

(* C22: aggregate over one or more embeddings of identical length returns, *)
(* for every dimension i, mean[i] equal to the arithmetic mean of the      *)
(* samples at i and median[i] equal to the middle value of the sorted      *)
(* samples at i (the average of the two middle values when the count is    *)
(* even); for a single sample e both mean and median equal e.              *)
C22_AggregateIsMeanAndMedian ==
    LET es == aggregating.embeddings
        out == aggregating.out
        n == Len(es)
    IN  (aggregating.done /\ n >= 1 /\ SameLength(es)) =>
          /\ out.kind = "ok"
          /\ Len(out.mean) = Len(es[1].v) /\ Len(out.median) = Len(es[1].v)
          /\ \A i \in 1..Len(es[1].v) :
                LET col == Column(es, i)
                    lower == KthSmallest(col, (n + 1) \div 2)
                    upper == KthSmallest(col, (n \div 2) + 1)
                IN  /\ out.mean[i].num * n = Sum(col) * out.mean[i].den
                    /\ 2 * out.median[i].num = (lower + upper) * out.median[i].den
                    /\ n = 1 => /\ out.mean[i].num = es[1].v[i] * out.mean[i].den
                                /\ out.median[i].num = es[1].v[i] * out.median[i].den

\* four embeddings were aggregated whose first coordinates have a median
\* between two of them, and the median differs from the mean
C22_Witness ==
    LET es == aggregating.embeddings
        out == aggregating.out
    IN  /\ aggregating.done /\ out.kind = "ok" /\ Len(es) = 4
        /\ out.median[1] = [num |-> 5, den |-> 2]
        /\ out.mean[1] = [num |-> 9, den |-> 4]

\* the variance over all coordinates, against their mean, is below p/q
VarianceBelow(es, minVariance) ==
    LET n == Len(es)
        d == Len(es[1].v)
        squares == Sum([c \in 1..(n * d) |->
                          LET k == ((c - 1) \div d) + 1
                              i == ((c - 1) % d) + 1
                              diff == n * es[k].v[i] - Sum(Column(es, i))
                          IN  diff * diff])
    IN  squares * minVariance.den < minVariance.num * n * n * n * d

\* the cosine distances of the pairs of different embeddings
PairDistances(es) ==
    [c \in 1..(Len(es) * Len(es)) |->
       LET i == ((c - 1) \div Len(es)) + 1
           j == ((c - 1) % Len(es)) + 1
       IN  IF i < j THEN CosineDistance(es[i], es[j]) ELSE 0]

\* the mean of the pairwise distances compared with the ceiling
MeanDistanceOver(es, ceiling) ==
    Sum(PairDistances(es)) > ceiling * PairCount(es)

(* C23: validateQuality returns isValid = false exactly when the sample    *)
(* count is below minSamples, or the per-dimension variance is below       *)
(* minVariance, or the mean pairwise cosine distance exceeds the ceiling:  *)
(* a set whose mean pairwise distance equals the ceiling and whose         *)
(* variance equals minVariance is accepted.                                *)
C23_InvalidIffBelowOrAbove ==
    LET es == validating.embeddings
        o == validating.options
    IN  (validating.done /\ SameLength(es)) =>
          /\ validating.out.kind = "ok"
          /\ ~validating.out.isValid <=>
                \/ Len(es) < o.minSamples
                \/ VarianceBelow(es, o.minVariance)
                \/ MeanDistanceOver(es, o.maxMeanDistance)

FailingStages(e) ==
    {s \in 1..Len(e.cascade.stages) :
       StageSum(e.image, e.x, e.y, One, e.cascade.stages[s])
         < e.cascade.stages[s].threshold}

(* C25: evaluate visits the stages in their stored order and accepts if    *)
(* and only if every stage's accumulated weak-classifier sum is at least   *)
(* that stage's rejection threshold; it rejects at the first stage whose   *)
(* sum is below its threshold without evaluating any later stage, and it   *)
(* never modifies the cascade.                                             *)
C25_RejectsAtFirstFailingStage ==
    /\ [](evaluating.done =>
            LET fails == FailingStages(evaluating)
                n == Len(evaluating.cascade.stages)
                stop == IF fails = {} THEN n ELSE SetMin(fails)
            IN  /\ evaluating.accept <=> fails = {}
                /\ evaluating.visited = [k \in 1..stop |-> k])
    /\ [][evaluating'.cascade = evaluating.cascade]_vars

\* a window passed the first stage and was rejected by the second of three
\* stages, and the third would have passed it
C25_Witness ==
    /\ evaluating.done /\ ~evaluating.accept
    /\ Len(evaluating.cascade.stages) = 3
    /\ evaluating.visited = <<1, 2>>
    /\ FailingStages(evaluating) = {2}

\* factor to the power k
RECURSIVE Power(_, _)
Power(factor, k) == IF k = 0 THEN One ELSE Times(Power(factor, k - 1), factor)

\* no scale beyond factor^MaxPower fits one of the images
MaxPower == MaxImage + 3

\* the window of the scale is not below minSize, not above maxSize when
\* maxSize is set, and not larger than the image
Eligible(in, scale) ==
    LET w == Floor(scale, in.cascade.width)
        h == Floor(scale, in.cascade.height)
    IN  /\ w >= in.minSize.width /\ h >= in.minSize.height
        /\ in.maxSize.given => (w <= in.maxSize.width /\ h <= in.maxSize.height)
        /\ w <= in.image.width /\ h <= in.image.height

(* C26: the multi-scale scan evaluates every scale of the sequence 1, f,   *)
(* f^2, ... whose scaled window is at least minSize, at most maxSize (if   *)
(* set) and does not exceed the image bounds, including a window exactly   *)
(* as large as the image; it skips the scales below minSize and evaluates  *)
(* no scale whose window is outside these limits.                          *)
C26_EveryFittingScaleIsScanned ==
    loop.pc = "done" =>
      /\ \A k \in 0..MaxPower :
            Eligible(loop.input, Power(loop.input.scaleFactor, k)) =>
              \E e \in 1..Len(loop.evaluated) :
                 loop.evaluated[e] = Power(loop.input.scaleFactor, k)
      /\ \A e \in 1..Len(loop.evaluated) : Eligible(loop.input, loop.evaluated[e])
      /\ \A e \in 1..Len(loop.skipped) : ~Eligible(loop.input, loop.skipped[e])

\* the while condition: the window of the scale is inside the image
Fits(in, scale) ==
    /\ scale.num * in.cascade.width < in.image.width * scale.den
    /\ scale.num * in.cascade.height < in.image.height * scale.den

(* C29: the multi-scale scan terminates for every image size, window size, *)
(* minSize/maxSize and scaleFactor > 1: the scale strictly grows on every  *)
(* iteration, including the iterations skipped for being below minSize,    *)
(* and the loop is left at the latest when the window no longer fits the   *)
(* image.                                                                  *)
C29_ScanTerminates ==
    /\ <>(loop.pc = "done")
    /\ [][(loop.pc = "test" /\ loop'.pc = "test") =>
            loop'.scale.num * loop.scale.den > loop.scale.num * loop'.scale.den]_vars
    /\ [][(loop.pc = "test" /\ ~Fits(loop.input, loop.scale)) =>
            loop'.pc = "done"]_vars

\* a scan has ended after iterations that were skipped for being below
\* minSize and iterations that scanned the image
C29_Witness ==
    /\ loop.pc = "done"
    /\ Len(loop.skipped) >= 2 /\ Len(loop.evaluated) >= 1
    /\ ~Fits(loop.input, loop.scale)

\* the positions listed in one group
MembersOf(group) == {group[m] : m \in 1..Len(group)}

(* C30: grouping partitions the raw detections: every raw detection is     *)
(* consumed by exactly one cluster (as its seed or as a member absorbed by *)
(* an earlier seed), a detection absorbed into a cluster that is discarded *)
(* for having fewer than minNeighbors members is never reused by another   *)
(* cluster, and the neighbor counts of the returned detections sum to at   *)
(* most the number of raw detections.                                      *)
C30_GroupingPartitions ==
    grouping.done =>
      LET ds == grouping.detections
          gs == grouping.groups
          kept == SelectSeq(gs, LAMBDA g : Len(g) >= grouping.minNeighbors)
      IN  /\ \A k \in 1..Len(ds) :
                Cardinality({c \in 1..Len(gs) : k \in MembersOf(gs[c])}) = 1
          /\ \A c \in 1..Len(gs) :
                /\ Len(gs[c]) >= 1
                /\ Cardinality(MembersOf(gs[c])) = Len(gs[c])
                /\ \A m \in 2..Len(gs[c]) :
                      /\ gs[c][m] > gs[c][1]
                      /\ IsNeighbor(CalculateOverlap(ds[gs[c][1]], ds[gs[c][m]]))
          /\ Len(grouping.grouped) = Len(kept)
          /\ \A c \in 1..Len(kept) : grouping.grouped[c].neighbors = Len(kept[c])
          /\ Sum([c \in 1..Len(grouping.grouped) |-> grouping.grouped[c].neighbors])
                <= Len(ds)

\* the second detection was absorbed by the first into a group that was
\* discarded; the third overlaps the second but not the first and became a
\* group of its own
C30_Witness ==
    /\ grouping.done /\ grouping.minNeighbors = 3
    /\ grouping.groups = <<(<<1, 2>>), (<<3>>)>>
    /\ grouping.grouped = <<>>
    /\ IsNeighbor(CalculateOverlap(grouping.detections[2], grouping.detections[3]))

\* the ids of the stored users that have face embeddings with a mean
StoredWithMean == {id \in Ids : users[id].present /\ Stores(users[id].faceEmbeddings)}

(* C27: whenever the index is Loaded and no call is in progress, it holds  *)
(* an entry for every user in storage that has stored face embeddings (a   *)
(* mean): no sequence of createUser, updateUserById, deleteUserById,       *)
(* rebuild and clear, starting from a fresh process with users already in  *)
(* storage, reaches a Loaded index that is missing such a user.            *)
C27_LoadedIndexCoversStorage ==
    (loaded /\ svc.pc = "idle" /\ reb.pc = "idle") =>
      StoredWithMean \subseteq IdsOf(entries)


\* what findBestMatch has accumulated over the entries of the index
IndexScan == ScanFrom(InitScan, auth.query, entries, 1)

\* the index has a best identity and turns it down on the threshold
RejectedOnThreshold ==
    /\ IndexScan.hasBest /\ ~IndexScan.threw
    /\ IndexScan.bestDistance >= COSINE_DISTANCE_THRESHOLD

\* the index has a best identity below the threshold and turns it down
\* because the second-best identity is closer than the margin
RejectedOnMargin ==
    /\ IndexScan.hasBest /\ ~IndexScan.threw
    /\ IndexScan.bestDistance < COSINE_DISTANCE_THRESHOLD
    /\ IndexScan.secondBestDistance # Infinity
    /\ IndexScan.secondBestDistance - IndexScan.bestDistance < DISTANCE_MARGIN

\* the call has searched a Loaded index that holds every user it has read
SearchedCoveringIndex ==
    /\ auth.pc = "done" /\ auth.searched
    /\ IdsOf(auth.users) \subseteq IdsOf(entries)

(* C28: the linear fallback in findByEmbedding never weakens the index's   *)
(* decision: when the index is Loaded and covers all stored users, and     *)
(* index search rejects a query because the best and second-best           *)
(* identities are closer than the margin or because best >= threshold,     *)
(* findByEmbedding returns null and issues no token for that query.        *)
C28_FallbackNeverWeakens ==
    (SearchedCoveringIndex /\ auth.index.kind = "null"
       /\ (RejectedOnMargin \/ RejectedOnThreshold))
      => (auth.ret = "null" /\ auth.token = 0)

====
